---- MODULE Spec2Model ----
(***************************************************************************)
(* Daily Task Assignment & Reward Ledger Engine of synthgraphix-web.       *)
(*                                                                         *)
(* The server is an express application over ONE shared sqlite3            *)
(* connection (db.js).  Every handler is an async function: it runs        *)
(* without interruption up to its next `await` of a store statement, and   *)
(* the statements of different requests interleave freely.  A request is   *)
(* therefore modelled as a small process whose program counter names the   *)
(* store statement it will execute next; one action executes exactly one   *)
(* statement together with the synchronous code that follows it.           *)
(*                                                                         *)
(* BEGIN / COMMIT / ROLLBACK act on the connection, not on the request:    *)
(* while a transaction is open every statement of every request works on   *)
(* the uncommitted state, and a ROLLBACK (or a crash of the process)       *)
(* returns the store to the state of the last BEGIN.                       *)
(***************************************************************************)
EXTENDS Integers, Sequences, FiniteSets, TLC

(***************************** bounds **************************************)
NumReq == 2        \* requests issued in one behaviour (slots are not reused)
NumUsers == 2      \* user ids 1..NumUsers
NumTasks == 6      \* size of the seeded catalog prefix that is modelled
MaxDay == 2        \* day keys 1..MaxDay

(************************ program constants ********************************)
DailyLimit == 5    \* "max 5/day"
MinAnswerLen == 2  \* ans.length < 2 is rejected
BonusBlock == 1000 \* redemption block of /api/referrals/redeem
ReferralBonus == 100
GraceDays == 7     \* days between a delete request and its effect

Reqs == 1..NumReq
Users == 1..NumUsers
TaskIds == 1..NumTasks

\* ALL_TYPES of ensureDailyTasks, in source order; TYPES of the seed is the
\* same list.
ALL_TYPES ==
  << "audio_transcription", "video_transcription", "image_caption",
     "image_tagging", "text_cleanup" >>

\* initDb seeds task i with TYPES[i % TYPES.length] (0-based index).
SeedType(i) == ALL_TYPES[(i % Len(ALL_TYPES)) + 1]

\* rewardFor(t) = clamp(base + floor(random * (max - base + 1)), 10, 30);
\* the model fixes the draw at 0, so the reward is the base of the type.
SeedReward(i) ==
  LET typ == SeedType(i) IN
    IF typ = "video_transcription" THEN 18
    ELSE IF typ = "image_caption" THEN 12
    ELSE 10

(**************************** pure helpers *********************************)
RECURSIVE SeqSum(_)
SeqSum(s) == IF s = << >> THEN 0 ELSE Head(s) + SeqSum(Tail(s))

Range(s) == { s[i] : i \in 1..Len(s) }

\* String.prototype.trim on an answer given as a sequence of characters.
RECURSIVE TrimLeft(_)
TrimLeft(s) ==
  IF s # << >> /\ Head(s) = " " THEN TrimLeft(Tail(s)) ELSE s

RECURSIVE TrimRight(_)
TrimRight(s) ==
  IF s # << >> /\ s[Len(s)] = " " THEN TrimRight(SubSeq(s, 1, Len(s) - 1)) ELSE s

Trim(s) == TrimRight(TrimLeft(s))

\* Answers a client may post (req.body.answer_text).
Answers == { << " ", "a", " " >>, << "a", "b" >> }

(****************************** state **************************************)
VARIABLES
  db,        \* the sqlite database as the shared connection sees it
  catalog,   \* table tasks: id -> [type, reward, active]
  txOwner,   \* 0, or the request whose BEGIN opened the connection's transaction
  txSnap,    \* the database at that BEGIN (what ROLLBACK / recovery restores)
  today,     \* dayKeyNairobi() of the current instant
  pc,        \* per request: the store statement it executes next
  loc,       \* per request: the handler's local variables
  resp,      \* per request: the response sent
  hist       \* per request (history): what it found at its start, whether it wrote

vars == << db, catalog, txOwner, txSnap, today, pc, loc, resp, hist >>

\* The durable content of the store: what a restart of the process finds.
Committed == IF txOwner = 0 THEN db ELSE txSnap

NoLoc ==
  [ kind |-> "none", user |-> 0, task |-> 0, day |-> 0, ans |-> << >>,
    dtId |-> 0, reward |-> 0, amount |-> 0, bal |-> 0,
    existing |-> 0, used |-> {}, picks |-> << >>, i |-> 0, rows |-> << >>,
    at |-> 0, key |-> << >>, who |-> "none", ref |-> << >>, half |-> 0 ]

NoResp == [ status |-> "none", balance |-> 0, remaining |-> 0, tasks |-> << >> ]

NoHist ==
  [ sawDone |-> FALSE, wrote |-> FALSE, short |-> FALSE, swept |-> {}, bal0 |-> 0 ]

\* The store of the registered users before any task is assigned: user 2
\* registered with the referral code of user 1, which credited user 1's
\* bonus wallet (register: bonus_ksh = bonus_ksh + 100).
\* balance_ksh of user u is bal[u] + balHalf[u] / 2: the column is declared
\* INTEGER, which in sqlite is an affinity, and a value with a fractional
\* part is stored in it as a REAL.  deleteReq and deleteAt are the days of
\* delete_requested_at and delete_effective_at, 0 for NULL.
EmptyDb ==
  [ users |-> Users,
    bal |-> [ u \in Users |-> 0 ],
    balHalf |-> [ u \in Users |-> 0 ],
    bonus |-> [ u \in Users |-> IF u = 1 THEN ReferralBonus ELSE 0 ],
    referredBy |-> [ u \in Users |-> IF u = 2 THEN 1 ELSE 0 ],
    daily |-> << >>,
    nextDt |-> 1,
    tc |-> << >>,
    wd |-> << >>,
    grants |-> {},
    deleteReq |-> [ u \in Users |-> 0 ],
    deleteAt |-> [ u \in Users |-> 0 ] ]

SeedCatalog ==
  [ t \in TaskIds |->
      [ type |-> SeedType(t), reward |-> SeedReward(t), active |-> TRUE ] ]

(************************* table operations ********************************)
\* SELECT ... FROM daily_tasks WHERE user_id=? AND day_key=? AND task_id=?
DailyRow(d, u, day, t) ==
  SelectSeq(d.daily, LAMBDA row : row.user = u /\ row.day = day /\ row.task = t)

\* Mutant: the assignments of a user without `AND day_key=?`.
DailyOfAnyDay(d, u, day) ==
  SelectSeq(d.daily, LAMBDA row : row.user = u)

\* SELECT ... FROM daily_tasks WHERE user_id=? AND day_key=?  (ORDER BY id)
DailyOf(d, u, day) ==
  SelectSeq(d.daily, LAMBDA row : row.user = u /\ row.day = day)

\* Mutant: INSERT OR REPLACE, which deletes the row that holds the triple and
\* inserts a fresh one.
InsertDailyReplace(d, u, day, t) ==
  [ d EXCEPT
      !.daily = Append(SelectSeq(@, LAMBDA row : ~(row.user = u /\ row.day = day /\ row.task = t)),
                       [ id |-> d.nextDt, user |-> u, day |-> day,
                         task |-> t, done |-> FALSE, ans |-> << >> ]),
      !.nextDt = @ + 1 ]

\* INSERT OR IGNORE INTO daily_tasks (user_id, day_key, task_id):
\* UNIQUE(user_id, day_key, task_id) absorbs an existing triple.
InsertDailyIgnore(d, u, day, t) ==
  IF DailyRow(d, u, day, t) # << >> THEN d
  ELSE [ d EXCEPT
           !.daily = Append(@, [ id |-> d.nextDt, user |-> u, day |-> day,
                                 task |-> t, done |-> FALSE, ans |-> << >> ]),
           !.nextDt = @ + 1 ]

\* UPDATE daily_tasks SET completed_at=CURRENT_TIMESTAMP, answer_text=? WHERE id=?
MarkCompleted(d, id, ans) ==
  [ d EXCEPT !.daily =
      [ k \in 1..Len(@) |->
          IF @[k].id = id THEN [ @[k] EXCEPT !.done = TRUE, !.ans = ans ]
          ELSE @[k] ] ]

\* INSERT INTO task_completions (user_id, task_id, reward_ksh, answer_text)
InsertCompletion(d, u, day, t, reward, ans) ==
  [ d EXCEPT !.tc = Append(@, [ user |-> u, day |-> day, task |-> t,
                                reward |-> reward, ans |-> ans ]) ]

\* UPDATE users SET balance_ksh = balance_ksh + ? WHERE id=?
AddBalance(d, u, amount) ==
  IF u \in d.users THEN [ d EXCEPT !.bal[u] = @ + amount ] ELSE d

\* rows.filter(r => !r.completed).length over the first 5 rows of the day
Remaining(d, u, day) ==
  LET rows == DailyOf(d, u, day)
      shown == SubSeq(rows, 1, IF Len(rows) < DailyLimit THEN Len(rows) ELSE DailyLimit)
  IN  Len(SelectSeq(shown, LAMBDA row : ~row.done))

(************************ request bookkeeping ******************************)
\* What is kept of a request once its handler has returned: the request itself.
Returned(l) ==
  [ NoLoc EXCEPT !.kind = l.kind, !.user = l.user, !.task = l.task,
                 !.day = l.day, !.amount = l.amount, !.at = l.at, !.key = l.key,
                 !.who = l.who, !.ref = l.ref, !.half = l.half ]

Finish(r, status, balance, remaining) ==
  /\ pc' = [ pc EXCEPT ![r] = "done" ]
  /\ resp' = [ resp EXCEPT ![r] = [ NoResp EXCEPT !.status = status,
                                                  !.balance = balance,
                                                  !.remaining = remaining ] ]
  /\ loc' = [ loc EXCEPT ![r] = Returned(@) ]

Goto(r, label) ==
  /\ pc' = [ pc EXCEPT ![r] = label ]
  /\ UNCHANGED resp

\* History: request r has executed a statement that writes the store.
Wrote(r) == hist' = [ hist EXCEPT ![r].wrote = TRUE ]

\* History: the assignment (u, day, t) is completed in the committed store
\* and no transaction is open.
CompletedInStore(u, day, t) ==
  /\ txOwner = 0
  /\ \E k \in 1..Len(db.daily) :
       /\ db.daily[k].user = u /\ db.daily[k].day = day /\ db.daily[k].task = t
       /\ db.daily[k].done

\* Request slots are interchangeable: they are taken in increasing order.
CanStart(r) ==
  /\ pc[r] = "idle"
  /\ \A q \in DOMAIN pc : q < r => pc[q] # "idle"

(***************************************************************************)
(* POST /api/tasks/:id/complete   (server index.js, current revision)      *)
(***************************************************************************)
\* The synchronous prefix of the handler: dayKeyNairobi(), the task id, the
\* trimmed answer and its length check.
CompleteStart(r, u, t, a) ==
  /\ CanStart(r)
  /\ LET ans == Trim(a)
         new == [ NoLoc EXCEPT !.kind = "complete", !.user = u, !.task = t,
                               !.day = today, !.ans = ans ]
     IN  IF Len(ans) < MinAnswerLen
           THEN /\ pc' = [ pc EXCEPT ![r] = "done" ]
                /\ resp' = [ resp EXCEPT ![r].status = "answer_required" ]
                /\ loc' = [ loc EXCEPT ![r] = Returned(new) ]
           ELSE /\ loc' = [ loc EXCEPT ![r] = new ]
                /\ Goto(r, "c_getDt")
  /\ hist' = [ hist EXCEPT ![r].sawDone = CompletedInStore(u, today, t),
                           ![r].bal0 = IF u \in db.users THEN db.bal[u] ELSE 0 ]
  /\ UNCHANGED << db, catalog, txOwner, txSnap, today >>

\* Mutant: the task is looked up before the assignment, as in the older
\* revision (SELECT ... FROM tasks WHERE id = ? AND active = 1 comes first).
CompleteGetDtTaskFirst(r) ==
  /\ pc[r] = "c_getDt"
  /\ LET rows == DailyRow(db, loc[r].user, loc[r].day, loc[r].task) IN
       IF ~(loc[r].task \in DOMAIN catalog /\ catalog[loc[r].task].active)
         THEN Finish(r, "task_not_found", 0, 0)
       ELSE IF rows = << >>
         THEN Finish(r, "not_assigned", 0, 0)
       ELSE IF rows[1].done
         THEN Finish(r, "already_completed", 0, 0)
       ELSE /\ loc' = [ loc EXCEPT ![r].dtId = rows[1].id ]
            /\ Goto(r, "c_getTask")
  /\ UNCHANGED << db, catalog, txOwner, txSnap, today, hist >>

\* Mutant: the handler without `if (dt.completed_at) return ...`.
CompleteGetDtNoDoneCheck(r) ==
  /\ pc[r] = "c_getDt"
  /\ LET rows == DailyRow(db, loc[r].user, loc[r].day, loc[r].task) IN
       IF rows = << >>
         THEN Finish(r, "not_assigned", 0, 0)
       ELSE /\ loc' = [ loc EXCEPT ![r].dtId = rows[1].id ]
            /\ Goto(r, "c_getTask")
  /\ UNCHANGED << db, catalog, txOwner, txSnap, today, hist >>

\* const dt = await get("SELECT id, completed_at FROM daily_tasks WHERE ...")
\* followed by the two checks on dt.
CompleteGetDt(r) ==
  /\ pc[r] = "c_getDt"
  /\ LET rows == DailyRow(db, loc[r].user, loc[r].day, loc[r].task) IN
       IF rows = << >>
         THEN Finish(r, "not_assigned", 0, 0)
       ELSE IF rows[1].done
         THEN Finish(r, "already_completed", 0, 0)
       ELSE /\ loc' = [ loc EXCEPT ![r].dtId = rows[1].id ]
            /\ Goto(r, "c_getTask")
  /\ UNCHANGED << db, catalog, txOwner, txSnap, today, hist >>

\* const task = await get("SELECT reward_ksh FROM tasks WHERE id=? AND active=1")
CompleteGetTask(r) ==
  /\ pc[r] = "c_getTask"
  /\ IF loc[r].task \in DOMAIN catalog /\ catalog[loc[r].task].active
       THEN /\ loc' = [ loc EXCEPT ![r].reward = catalog[loc[r].task].reward ]
            /\ Goto(r, "c_begin")
       ELSE Finish(r, "task_not_found", 0, 0)
  /\ UNCHANGED << db, catalog, txOwner, txSnap, today, hist >>

\* await run("BEGIN"): sqlite refuses a BEGIN inside the connection's open
\* transaction; the rejection is outside the inner try, so the handler
\* answers 500 without a ROLLBACK.
CompleteBegin(r) ==
  /\ pc[r] = "c_begin"
  /\ IF txOwner # 0
       THEN Finish(r, "server_error", 0, 0) /\ UNCHANGED << txOwner, txSnap >>
       ELSE /\ txOwner' = r
            /\ txSnap' = db
            /\ Goto(r, "c_updDt")
            /\ UNCHANGED loc
  /\ UNCHANGED << db, catalog, today, hist >>

CompleteUpdDt(r) ==
  /\ pc[r] = "c_updDt"
  /\ db' = MarkCompleted(db, loc[r].dtId, loc[r].ans)
  /\ Wrote(r)
  /\ Goto(r, "c_insTc")
  /\ UNCHANGED << catalog, txOwner, txSnap, today, loc >>

\* task_completions.user_id REFERENCES users(id): with foreign_keys = ON the
\* insert for a missing user is a constraint error, caught by the inner try.
CompleteInsTc(r) ==
  /\ pc[r] = "c_insTc"
  /\ IF loc[r].user \in db.users
       THEN db' = InsertCompletion(db, loc[r].user, loc[r].day, loc[r].task,
                                   loc[r].reward, loc[r].ans)
       ELSE UNCHANGED db
  /\ Wrote(r)
  /\ Goto(r, IF loc[r].user \in db.users THEN "c_updBal" ELSE "c_rollback")
  /\ UNCHANGED << catalog, txOwner, txSnap, today, loc >>

\* Mutant: the credit is not the reward the handler read from the task.
CompleteUpdBalFlat(r) ==
  /\ pc[r] = "c_updBal"
  /\ db' = AddBalance(db, loc[r].user, MinAnswerLen * loc[r].reward)
  /\ Wrote(r)
  /\ Goto(r, "c_commit")
  /\ UNCHANGED << catalog, txOwner, txSnap, today, loc >>

CompleteUpdBal(r) ==
  /\ pc[r] = "c_updBal"
  /\ db' = AddBalance(db, loc[r].user, loc[r].reward)
  /\ Wrote(r)
  /\ Goto(r, "c_commit")
  /\ UNCHANGED << catalog, txOwner, txSnap, today, loc >>

CompleteCommit(r) ==
  /\ pc[r] = "c_commit"
  /\ txOwner' = 0
  /\ txSnap' = EmptyDb
  /\ Goto(r, "c_getMe")
  /\ UNCHANGED << db, catalog, today, loc, hist >>

\* Mutant: the catch block ends the transaction without undoing its writes
\* (COMMIT in place of ROLLBACK).
CompleteRollbackKeeps(r) ==
  /\ pc[r] = "c_rollback"
  /\ txOwner' = 0
  /\ txSnap' = EmptyDb
  /\ Finish(r, "server_error", 0, 0)
  /\ UNCHANGED << db, catalog, today, hist >>

\* catch (e) { await run("ROLLBACK"); throw e; }  -> 500
CompleteRollback(r) ==
  /\ pc[r] = "c_rollback"
  /\ db' = txSnap
  /\ txOwner' = 0
  /\ txSnap' = EmptyDb
  /\ Finish(r, "server_error", 0, 0)
  /\ UNCHANGED << catalog, today, hist >>

\* const me = await get("SELECT balance_ksh FROM users WHERE id=?")
CompleteGetMe(r) ==
  /\ pc[r] = "c_getMe"
  /\ loc' = [ loc EXCEPT ![r].bal =
                IF loc[r].user \in db.users THEN db.bal[loc[r].user] ELSE 0 ]
  /\ Goto(r, "c_getRows")
  /\ UNCHANGED << db, catalog, txOwner, txSnap, today, hist >>

\* const rows = await all(...LIMIT 5); remaining; res.json({ ok, balance_ksh, remaining })
CompleteGetRows(r) ==
  /\ pc[r] = "c_getRows"
  /\ Finish(r, "ok", loc[r].bal, Remaining(db, loc[r].user, loc[r].day))
  /\ UNCHANGED << db, catalog, txOwner, txSnap, today, hist >>

(***************************************************************************)
(* ensureDailyTasks(userId, dayKey) and GET /api/tasks                     *)
(***************************************************************************)
\* DELETE FROM daily_tasks WHERE user_id NOT IN (SELECT id FROM users)
DeleteOrphansOfUsers(d) ==
  [ d EXCEPT !.daily = SelectSeq(@, LAMBDA row : row.user \in d.users) ]

\* DELETE FROM daily_tasks WHERE task_id NOT IN (SELECT id FROM tasks)
DeleteOrphansOfTasks(d) ==
  [ d EXCEPT !.daily = SelectSeq(@, LAMBDA row : row.task \in DOMAIN catalog) ]

\* SELECT DISTINCT t.type FROM daily_tasks dt JOIN tasks t ... (as a Set)
TypesOf(rows) ==
  { catalog[rows[k].task].type : k \in { j \in 1..Len(rows) : rows[j].task \in DOMAIN catalog } }

\* SELECT id FROM tasks WHERE active=1 AND type=?   (the rows RANDOM() orders)
ActiveOfType(typ) == { t \in DOMAIN catalog : catalog[t].active /\ catalog[t].type = typ }

\* SELECT id, type FROM tasks WHERE active=1
ActiveTasks == { t \in DOMAIN catalog : catalog[t].active }

\* `for (const typ of ALL_TYPES) { if (used.has(typ)) continue; ...`: the
\* index of the next type, from i on, that is queried (Len + 1: none).
RECURSIVE NextUnused(_, _)
NextUnused(i, used) ==
  IF i > Len(ALL_TYPES) THEN i
  ELSE IF ALL_TYPES[i] \in used THEN NextUnused(i + 1, used)
  ELSE i

\* Where the function continues when the first loop is over.
AfterLoop1(l) ==
  IF Len(l.picks) + l.existing < DailyLimit THEN "e_loop2"
  ELSE IF l.picks = << >> THEN "t_rows"
  ELSE "e_insert"

\* Where it continues when the second loop is over.
AfterLoop2(l) == IF l.picks = << >> THEN "t_rows" ELSE "e_insert"

\* `for (const tid of picks)` starts at the first pick.
Entering(label, l) == IF label = "e_insert" THEN [ l EXCEPT !.i = 1 ] ELSE l

\* const dayKey = dayKeyNairobi(); ensureDailyTasks: run("PRAGMA foreign_keys = ON")
\* (the PRAGMA reads and writes no table and is folded into the arrival).
TasksStart(r, u) ==
  /\ CanStart(r)
  /\ loc' = [ loc EXCEPT ![r] = [ NoLoc EXCEPT !.kind = "tasks", !.user = u,
                                               !.day = today ] ]
  /\ Goto(r, "e_clean1")
  /\ UNCHANGED << db, catalog, txOwner, txSnap, today, hist >>

EnsureClean1(r) ==
  /\ pc[r] = "e_clean1"
  /\ db' = DeleteOrphansOfUsers(db)
  /\ Goto(r, "e_clean2")
  /\ UNCHANGED << catalog, txOwner, txSnap, today, loc, hist >>

EnsureClean2(r) ==
  /\ pc[r] = "e_clean2"
  /\ db' = DeleteOrphansOfTasks(db)
  /\ Goto(r, "e_user")
  /\ UNCHANGED << catalog, txOwner, txSnap, today, loc, hist >>

\* const user = await get("SELECT id FROM users WHERE id = ?"); if (!user) return;
EnsureUser(r) ==
  /\ pc[r] = "e_user"
  /\ Goto(r, IF loc[r].user \in db.users THEN "e_existing" ELSE "t_rows")
  /\ UNCHANGED << db, catalog, txOwner, txSnap, today, loc, hist >>

\* const existing = await all(...); if (existing.length >= 5) return;
EnsureExisting(r) ==
  /\ pc[r] = "e_existing"
  /\ LET n == Len(DailyOf(db, loc[r].user, loc[r].day)) IN
       /\ loc' = [ loc EXCEPT ![r].existing = n ]
       /\ Goto(r, IF n >= DailyLimit THEN "t_rows" ELSE "e_types")
  /\ UNCHANGED << db, catalog, txOwner, txSnap, today, hist >>

\* const existingTypes = await all(...); used = new Set(...); picks = [];
\* then the first loop up to its first query.
EnsureTypes(r) ==
  /\ pc[r] = "e_types"
  /\ LET used == TypesOf(DailyOf(db, loc[r].user, loc[r].day))
         new == [ loc[r] EXCEPT !.used = used, !.picks = << >>,
                                !.i = NextUnused(1, used) ]
         target == IF new.i > Len(ALL_TYPES) THEN AfterLoop1(new) ELSE "e_loop1"
     IN  /\ loc' = [ loc EXCEPT ![r] = Entering(target, new) ]
         /\ Goto(r, target)
  /\ UNCHANGED << db, catalog, txOwner, txSnap, today, hist >>

\* One query of the first loop:
\*   row = await get("... WHERE active=1 AND type=? ORDER BY RANDOM() LIMIT 1")
\*   if (row) picks.push(row.id);
\*   if (picks.length + existing.length >= 5) break;
\* `used` is not extended by this loop.
EnsureLoop1(r) ==
  /\ pc[r] = "e_loop1"
  /\ LET cands == ActiveOfType(ALL_TYPES[loc[r].i]) IN
       \E row \in (IF cands = {} THEN { 0 } ELSE cands) :
         LET picks == IF row = 0 THEN loc[r].picks ELSE Append(loc[r].picks, row)
             full == Len(picks) + loc[r].existing >= DailyLimit
             new == [ loc[r] EXCEPT !.picks = picks,
                        !.i = IF full THEN @ ELSE NextUnused(@ + 1, loc[r].used) ]
             target == IF full \/ new.i > Len(ALL_TYPES)
                         THEN AfterLoop1(new) ELSE "e_loop1"
         IN  /\ loc' = [ loc EXCEPT ![r] = Entering(target, new) ]
             /\ Goto(r, target)
  /\ UNCHANGED << db, catalog, txOwner, txSnap, today, hist >>

\* One query of the second loop (entered while picks + existing < 5):
\*   row = await get("SELECT id, type FROM tasks WHERE active=1 ORDER BY RANDOM() LIMIT 1")
\*   if (!row) break;
\*   if (used.has(row.type)) continue;
\*   used.add(row.type); picks.push(row.id);
EnsureLoop2(r) ==
  /\ pc[r] = "e_loop2"
  /\ \E row \in (IF ActiveTasks = {} THEN { 0 } ELSE ActiveTasks) :
       IF row = 0
         THEN /\ Goto(r, AfterLoop2(loc[r]))
              /\ loc' = [ loc EXCEPT ![r] = Entering(AfterLoop2(loc[r]), @) ]
       ELSE IF catalog[row].type \in loc[r].used
         THEN /\ Goto(r, "e_loop2")
              /\ UNCHANGED loc
       ELSE LET new == [ loc[r] EXCEPT !.used = @ \cup { catalog[row].type },
                                       !.picks = Append(@, row) ]
                target == IF Len(new.picks) + new.existing < DailyLimit
                            THEN "e_loop2" ELSE "e_insert"
            IN  /\ loc' = [ loc EXCEPT ![r] = Entering(target, new) ]
                /\ Goto(r, target)
  /\ UNCHANGED << db, catalog, txOwner, txSnap, today, hist >>

\* for (const tid of picks) await run("INSERT OR IGNORE INTO daily_tasks ...")
\* daily_tasks.user_id REFERENCES users(id), task_id REFERENCES tasks(id): the
\* insert for a missing user or task is a constraint error (OR IGNORE does
\* not cover foreign keys), which GET /api/tasks answers with 500.
EnsureInsert(r) ==
  /\ pc[r] = "e_insert"
  /\ IF loc[r].user \in db.users /\ loc[r].picks[loc[r].i] \in DOMAIN catalog
       THEN /\ db' = InsertDailyIgnore(db, loc[r].user, loc[r].day,
                                       loc[r].picks[loc[r].i])
            /\ loc' = [ loc EXCEPT ![r].i = @ + 1 ]
            /\ Goto(r, IF loc[r].i = Len(loc[r].picks) THEN "t_rows" ELSE "e_insert")
       ELSE /\ UNCHANGED db
            /\ Finish(r, "server_error", 0, 0)
  /\ Wrote(r)
  /\ UNCHANGED << catalog, txOwner, txSnap, today >>

\* The rows GET /api/tasks and complete report: the first 5 of the day, by id.
ShownRows(d, u, day) ==
  LET rows == SelectSeq(DailyOf(d, u, day), LAMBDA row : row.task \in DOMAIN catalog)
      n == IF Len(rows) < DailyLimit THEN Len(rows) ELSE DailyLimit
  IN  [ k \in 1..n |-> [ id |-> rows[k].id, task |-> rows[k].task,
                          done |-> rows[k].done ] ]

\* const rows = await all(`SELECT ... ORDER BY dt.id ASC LIMIT 5`)
TasksRows(r) ==
  /\ pc[r] = "t_rows"
  /\ loc' = [ loc EXCEPT ![r].rows = ShownRows(db, loc[r].user, loc[r].day) ]
  /\ Goto(r, "t_me")
  /\ UNCHANGED << db, catalog, txOwner, txSnap, today, hist >>

\* const me = await get("SELECT balance_ksh ..."); remaining; res.json(...)
TasksMe(r) ==
  /\ pc[r] = "t_me"
  /\ pc' = [ pc EXCEPT ![r] = "done" ]
  /\ resp' = [ resp EXCEPT ![r] =
       [ status |-> "ok",
         balance |-> IF loc[r].user \in db.users THEN db.bal[loc[r].user] ELSE 0,
         remaining |-> Len(SelectSeq(loc[r].rows, LAMBDA row : ~row.done)),
         tasks |-> loc[r].rows ] ]
  /\ loc' = [ loc EXCEPT ![r] = Returned(@) ]
  /\ UNCHANGED << db, catalog, txOwner, txSnap, today, hist >>

TasksStep(r) ==
  \/ EnsureClean1(r)
  \/ EnsureClean2(r)
  \/ EnsureUser(r)
  \/ EnsureExisting(r)
  \/ EnsureTypes(r)
  \/ EnsureLoop1(r)
  \/ EnsureLoop2(r)
  \/ EnsureInsert(r)
  \/ TasksRows(r)
  \/ TasksMe(r)

(***************************************************************************)
(* Failures of the store and of the process                                *)
(***************************************************************************)
InTxBody == { "c_updDt", "c_insTc", "c_updBal", "c_commit" }
OutsideTx ==
  { "c_getDt", "c_getTask", "c_begin", "c_getMe", "c_getRows",
    "e_clean1", "e_clean2", "e_user", "e_existing", "e_types", "e_loop1",
    "e_loop2", "e_insert", "t_rows", "t_me" }

\* run/get/all reject (db.js: `if (err) return reject(err)`): the statement
\* has no effect; inside the inner try the handler goes to its ROLLBACK,
\* elsewhere the outer catch answers 500.
StoreFail(r) ==
  /\ \/ /\ pc[r] \in InTxBody
        /\ Goto(r, "c_rollback")
        /\ UNCHANGED loc
     \/ /\ pc[r] \in OutsideTx
        /\ Finish(r, "server_error", 0, 0)
  /\ UNCHANGED << db, catalog, txOwner, txSnap, today, hist >>

InFlight(r) == pc[r] \notin { "idle", "done" }

\* The process dies: every request in flight is lost without a response and
\* sqlite recovers the last committed state (journal_mode = WAL).
Crash ==
  /\ \E r \in DOMAIN pc : InFlight(r)
  /\ db' = Committed
  /\ txOwner' = 0
  /\ txSnap' = EmptyDb
  /\ pc' = [ r \in DOMAIN pc |-> IF InFlight(r) THEN "done" ELSE pc[r] ]
  /\ resp' = [ r \in DOMAIN pc |->
                 IF InFlight(r) THEN [ NoResp EXCEPT !.status = "crashed" ] ELSE resp[r] ]
  /\ loc' = [ r \in DOMAIN pc |-> IF InFlight(r) THEN Returned(loc[r]) ELSE loc[r] ]
  /\ UNCHANGED << catalog, today, hist >>

(***************************************************************************)
(* Environment: the catalog's owner and the clock                          *)
(***************************************************************************)
\* The catalog is reference data maintained outside the engine.
Deactivate(t) ==
  /\ catalog[t].active
  /\ catalog' = [ catalog EXCEPT ![t].active = FALSE ]
  /\ UNCHANGED << db, txOwner, txSnap, today, pc, loc, resp, hist >>

\* A task is taken out of the catalog (DELETE FROM tasks WHERE id = ?) by the
\* catalog's owner.  On a connection with foreign_keys = ON the assignments
\* and completions of the task go with it (ON DELETE CASCADE); on one
\* without (sqlite's default) they stay behind.
RemoveTask(t) ==
  /\ t \in DOMAIN catalog
  /\ catalog' = [ x \in DOMAIN catalog \ { t } |-> catalog[x] ]
  /\ \/ db' = [ db EXCEPT !.daily = SelectSeq(@, LAMBDA row : row.task # t),
                          !.tc = SelectSeq(@, LAMBDA row : row.task # t) ]
     \/ db' = db
  /\ UNCHANGED << txOwner, txSnap, today, pc, loc, resp, hist >>

\* A task is added to the catalog, active, with the next id.
AddTask(t) ==
  /\ t \notin DOMAIN catalog
  /\ t - 1 \in DOMAIN catalog
  /\ catalog' = [ x \in DOMAIN catalog \cup { t } |->
                    IF x = t THEN [ type |-> SeedType(t), reward |-> SeedReward(t),
                                    active |-> TRUE ]
                    ELSE catalog[x] ]
  /\ UNCHANGED << db, txOwner, txSnap, today, pc, loc, resp, hist >>

\* Local midnight of the reference timezone passes.
AdvanceDay ==
  /\ today < MaxDay
  /\ today' = today + 1
  /\ UNCHANGED << db, catalog, txOwner, txSnap, pc, loc, resp, hist >>

(***************************************************************************)
(* Specification of the completion ledger                                  *)
(***************************************************************************)
\* The allocation ensureDailyTasks produces on the seeded catalog when no
\* other request interferes: one task of each type of ALL_TYPES.
RECURSIVE Allocate(_, _, _, _)
Allocate(d, u, day, ts) ==
  IF ts = << >> THEN d
  ELSE Allocate(InsertDailyIgnore(d, u, day, Head(ts)), u, day, Tail(ts))

FirstOfEachType == << 5, 1, 2, 3, 4 >>

RECURSIVE AllocateAll(_, _)
AllocateAll(d, us) ==
  IF us = {} THEN d
  ELSE LET u == CHOOSE x \in us : \A y \in us : x <= y
       IN  AllocateAll(Allocate(d, u, 1, FirstOfEachType), us \ {u})

\* Inputs of the completion requests, << user, task >>: two assignments of
\* user 1, one of user 2, and a task that is assigned to nobody.
CompleteInputs == { << 1, 1 >>, << 1, 2 >>, << 2, 1 >>, << 1, NumTasks >> }

\* Tasks the catalog's owner may switch off meanwhile.
DeactivatedTasks == { 1 }

Init ==
  /\ db = AllocateAll(EmptyDb, Users)
  /\ catalog = SeedCatalog
  /\ txOwner = 0
  /\ txSnap = EmptyDb
  /\ today = 1
  /\ pc = [ r \in Reqs |-> "idle" ]
  /\ loc = [ r \in Reqs |-> NoLoc ]
  /\ resp = [ r \in Reqs |-> NoResp ]
  /\ hist = [ r \in Reqs |-> NoHist ]

CompleteStep(r) ==
  \/ CompleteGetDt(r)
  \/ CompleteGetTask(r)
  \/ CompleteBegin(r)
  \/ CompleteUpdDt(r)
  \/ CompleteInsTc(r)
  \/ CompleteUpdBal(r)
  \/ CompleteCommit(r)
  \/ CompleteRollback(r)
  \/ CompleteGetMe(r)
  \/ CompleteGetRows(r)

Next ==
  \/ \E r \in Reqs, i \in CompleteInputs, a \in Answers :
       CompleteStart(r, i[1], i[2], a)
  \/ \E r \in Reqs : CompleteStep(r)
  \/ \E r \in Reqs : StoreFail(r)
  \/ Crash
  \/ \E t \in DeactivatedTasks : Deactivate(t)

Spec == Init /\ [][Next]_vars

(***************************************************************************)
(* Specification of two users at once                                      *)
(***************************************************************************)
\* User X is user 1 and user Y is user 2; each completes task 1, which both
\* have been assigned, with a valid answer.
PairInputs == { << 1, 1 >>, << 2, 1 >> }
PairAnswers == { << "a", "b" >> }
FailingUsers == { 1 }

\* One complete of each user, interleaved statement by statement; the store
\* rejects statements of user X only.
NextPair ==
  \/ \E r \in Reqs, i \in PairInputs, a \in PairAnswers :
       /\ \A q \in Reqs : loc[q].user # i[1]
       /\ CompleteStart(r, i[1], i[2], a)
  \/ \E r \in Reqs : CompleteStep(r)
  \/ \E r \in Reqs : loc[r].user \in FailingUsers /\ StoreFail(r)

SpecPair == Init /\ [][NextPair]_vars

(***************************************************************************)
(* Specification of the retries                                            *)
(***************************************************************************)
\* The caller completes assignment (user 1, task 1) and asks again after
\* each answer.
RetryInputs == { << 1, 1 >> }
RetryAnswers == { << "a", "b" >> }

\* catch (e) { await run("ROLLBACK"); throw e; }: the ROLLBACK itself is
\* rejected; its rejection goes to the outer catch (500) and the
\* connection's transaction stays open.
RollbackFail(r) ==
  /\ pc[r] = "c_rollback"
  /\ Finish(r, "server_error", 0, 0)
  /\ UNCHANGED << db, catalog, txOwner, txSnap, today, hist >>

\* complete requests for one assignment, each sent when the one before has
\* been answered; the store may reject any statement and the process may
\* stop and restart.
NextRetry ==
  \/ \E r \in Reqs, i \in RetryInputs, a \in RetryAnswers :
       (\A q \in Reqs : ~InFlight(q)) /\ CompleteStart(r, i[1], i[2], a)
  \/ \E r \in Reqs : CompleteStep(r)
  \/ \E r \in Reqs : StoreFail(r)
  \/ \E r \in Reqs : RollbackFail(r)
  \/ Crash

SpecRetry == Init /\ [][NextRetry]_vars

(***************************************************************************)
(* Specification of the life of one assignment                             *)
(***************************************************************************)
\* Assignment (user 1, task 1) is completed by requests that give different
\* answers.
MutateInputs == { << 1, 1 >> }
MutateAnswers == { << "a", "b" >>, << "c", "d" >> }

NextMutate ==
  \/ \E r \in Reqs, i \in MutateInputs, a \in MutateAnswers :
       CompleteStart(r, i[1], i[2], a)
  \/ \E r \in Reqs : CompleteStep(r)
  \/ \E r \in Reqs : StoreFail(r)

SpecMutate == Init /\ [][NextMutate]_vars

(***************************************************************************)
(* Specifications of the daily allocator                                   *)
(***************************************************************************)
\* Users who open the tasks page, and the task the catalog's owner may
\* switch off: task 5 is the only audio_transcription task of the prefix.
TasksUsers == { 1, 2 }
AllocDeactivated == { 5 }
\* The requests that overlap in SpecAlloc.
AllocReqs == { 1, 2 }

InitAlloc ==
  /\ db = EmptyDb
  /\ catalog = SeedCatalog
  /\ txOwner = 0
  /\ txSnap = EmptyDb
  /\ today = 1
  /\ pc = [ r \in Reqs |-> "idle" ]
  /\ loc = [ r \in Reqs |-> NoLoc ]
  /\ resp = [ r \in Reqs |-> NoResp ]
  /\ hist = [ r \in Reqs |-> NoHist ]

\* Concurrent GET /api/tasks requests over the seeded catalog.
NextAlloc ==
  \/ \E r \in AllocReqs, u \in TasksUsers : TasksStart(r, u)
  \/ \E r \in AllocReqs : TasksStep(r)

SpecAlloc == InitAlloc /\ [][NextAlloc]_vars

\* GET /api/tasks requests one after the other, over a catalog that changes.
NextAllocSeq ==
  \/ \E r \in Reqs, u \in TasksUsers :
       (\A q \in Reqs : ~InFlight(q)) /\ TasksStart(r, u)
  \/ \E r \in Reqs : TasksStep(r)
  \/ \E t \in AllocDeactivated : Deactivate(t)

SpecAllocSeq == InitAlloc /\ [][NextAllocSeq]_vars

\* The same, where every request in flight is eventually served its next
\* statement (node's event loop runs each pending continuation); nothing
\* obliges a client to arrive or the catalog to change.
SpecAllocFair ==
  /\ InitAlloc
  /\ [][NextAllocSeq]_vars
  /\ \A r \in Reqs : WF_vars(TasksStep(r))

(***************************************************************************)
(* Specification of the allocation under a changing catalog                *)
(***************************************************************************)
\* Task 5 is assigned to every user; tasks 1 (assigned) and 6 are the two
\* tasks of one type.
FrozenDeactivated == { 5, 6 }
RemovedTasks == { 1 }
AddedTasks == { NumTasks + 1 }

\* GET /api/tasks requests, one after the other, of users whose day is fully
\* allocated (Init), while the catalog's owner deactivates, removes and adds
\* tasks.
NextFrozen ==
  \/ \E r \in Reqs, u \in TasksUsers :
       (\A q \in Reqs : ~InFlight(q)) /\ TasksStart(r, u)
  \/ \E r \in Reqs : TasksStep(r)
  \/ \E t \in FrozenDeactivated : Deactivate(t)
  \/ \E t \in RemovedTasks : RemoveTask(t)
  \/ \E t \in AddedTasks : AddTask(t)

SpecFrozen == Init /\ [][NextFrozen]_vars

(***************************************************************************)
(* POST /api/withdrawals, POST /api/withdraw/request and                   *)
(* POST /api/referrals/redeem                                              *)
(***************************************************************************)
\* INSERT INTO withdrawals (user_id, amount_ksh, ..., status) VALUES (..., 'pending')
InsertWithdrawal(d, u, amount) ==
  [ d EXCEPT !.wd = Append(@, [ user |-> u, amount |-> amount, status |-> "pending",
                                receipt |-> << >> ]) ]

\* UPDATE users SET balance_ksh = balance_ksh + 1000, bonus_ksh = bonus_ksh - 1000
RedeemBlock(d, u) ==
  [ d EXCEPT !.bal[u] = @ + BonusBlock, !.bonus[u] = @ - BonusBlock ]

\* History: the amount asked exceeds the balance the store holds on arrival.
Short(u, amount) == u \in db.users /\ amount > db.bal[u]

\* A JS number given as whole + half / 2 (half is 0 or 1), in half units.
Halves(whole, half) == 2 * whole + half

\* u.balance_ksh < data.amount
Below(d, u, whole, half) == Halves(d.bal[u], d.balHalf[u]) < Halves(whole, half)

\* balance_ksh - ? with a bound number; the whole part of the result is its
\* floor and the half what is left of it.
Debit(d, u, whole, half) ==
  LET v == Halves(d.bal[u], d.balHalf[u]) - Halves(whole, half)
  IN  [ d EXCEPT !.bal[u] = v \div 2, !.balHalf[u] = v % 2 ]

\* schema.parse(req.body): amount: z.number().positive(), which admits any
\* positive number, whole or not; a ZodError is answered 400 by the
\* handler's catch.
WithdrawStartNumber(r, u, whole, half) ==
  /\ CanStart(r)
  /\ LET new == [ NoLoc EXCEPT !.kind = "withdraw", !.user = u, !.amount = whole,
                               !.half = half ]
     IN  IF Halves(whole, half) > 0
           THEN /\ loc' = [ loc EXCEPT ![r] = new ]
                /\ Goto(r, "w_getBal")
           ELSE /\ pc' = [ pc EXCEPT ![r] = "done" ]
                /\ resp' = [ resp EXCEPT ![r].status = "bad_request" ]
                /\ loc' = [ loc EXCEPT ![r] = Returned(new) ]
  /\ hist' = [ hist EXCEPT ![r].short = u \in db.users /\ Below(db, u, whole, half) ]
  /\ UNCHANGED << db, catalog, txOwner, txSnap, today >>

\* The same with a whole amount.
WithdrawStart(r, u, amount) == WithdrawStartNumber(r, u, amount, 0)

\* const u = await get("SELECT balance_ksh FROM users WHERE id=?");
\* if (!u) 404; if (u.balance_ksh < data.amount) 400 "Insufficient balance"
WithdrawGetBal(r) ==
  /\ pc[r] = "w_getBal"
  /\ IF loc[r].user \notin db.users
       THEN Finish(r, "user_not_found", 0, 0)
     ELSE IF Below(db, loc[r].user, loc[r].amount, loc[r].half)
       THEN Finish(r, "insufficient_balance", 0, 0)
     ELSE /\ Goto(r, "w_begin")
          /\ UNCHANGED loc
  /\ UNCHANGED << db, catalog, txOwner, txSnap, today, hist >>

\* await run("BEGIN"), outside the inner try: a refused BEGIN is answered
\* 400 by the outer catch, without a ROLLBACK.
WithdrawBegin(r) ==
  /\ pc[r] = "w_begin"
  /\ IF txOwner # 0
       THEN Finish(r, "bad_request", 0, 0) /\ UNCHANGED << txOwner, txSnap >>
       ELSE /\ txOwner' = r
            /\ txSnap' = db
            /\ Goto(r, "w_upd")
            /\ UNCHANGED loc
  /\ UNCHANGED << db, catalog, today, hist >>

\* Mutant: the debit written as an absolute value computed from the balance
\* the transaction saw at its BEGIN (read, then write the difference).
WithdrawUpdBalFromRead(r) ==
  /\ pc[r] = "w_upd"
  /\ db' = IF loc[r].user \in db.users
             THEN LET w == Debit(txSnap, loc[r].user, loc[r].amount, loc[r].half)
                  IN  [ db EXCEPT !.bal[loc[r].user] = w.bal[loc[r].user],
                                  !.balHalf[loc[r].user] = w.balHalf[loc[r].user] ]
             ELSE db
  /\ Wrote(r)
  /\ Goto(r, "w_ins")
  /\ UNCHANGED << catalog, txOwner, txSnap, today, loc >>

\* UPDATE users SET balance_ksh = balance_ksh - ? WHERE id=?
WithdrawUpdBal(r) ==
  /\ pc[r] = "w_upd"
  /\ db' = IF loc[r].user \in db.users
             THEN Debit(db, loc[r].user, loc[r].amount, loc[r].half) ELSE db
  /\ Wrote(r)
  /\ Goto(r, "w_ins")
  /\ UNCHANGED << catalog, txOwner, txSnap, today, loc >>

\* INSERT INTO withdrawals ... Math.floor(data.amount) ... "pending";
\* withdrawals.user_id REFERENCES users(id)
WithdrawInsert(r) ==
  /\ pc[r] = "w_ins"
  /\ db' = IF loc[r].user \in db.users
             THEN InsertWithdrawal(db, loc[r].user, loc[r].amount) ELSE db
  /\ Wrote(r)
  /\ Goto(r, IF loc[r].user \in db.users THEN "w_commit" ELSE "w_rollback")
  /\ UNCHANGED << catalog, txOwner, txSnap, today, loc >>

WithdrawCommit(r) ==
  /\ pc[r] = "w_commit"
  /\ txOwner' = 0
  /\ txSnap' = EmptyDb
  /\ Goto(r, "w_getMe")
  /\ UNCHANGED << db, catalog, today, loc, hist >>

\* catch (e) { await run("ROLLBACK"); throw e; }  -> 400
WithdrawRollback(r) ==
  /\ pc[r] = "w_rollback"
  /\ db' = txSnap
  /\ txOwner' = 0
  /\ txSnap' = EmptyDb
  /\ Finish(r, "bad_request", 0, 0)
  /\ UNCHANGED << catalog, today, hist >>

\* const me = await get(...); res.json({ ok: true, balance_ksh: me.balance_ksh })
WithdrawGetMe(r) ==
  /\ pc[r] = "w_getMe"
  /\ IF loc[r].user \in db.users
       THEN Finish(r, "ok", db.bal[loc[r].user], 0)
       ELSE Finish(r, "bad_request", 0, 0)
  /\ UNCHANGED << db, catalog, txOwner, txSnap, today, hist >>

WithdrawStep(r) ==
  \/ WithdrawGetBal(r)
  \/ WithdrawBegin(r)
  \/ WithdrawUpdBal(r)
  \/ WithdrawInsert(r)
  \/ WithdrawCommit(r)
  \/ WithdrawRollback(r)
  \/ WithdrawGetMe(r)

\* A statement of /api/withdrawals is rejected by the store.
WithdrawStoreFail(r) ==
  /\ \/ /\ pc[r] \in { "w_upd", "w_ins", "w_commit" }
        /\ Goto(r, "w_rollback")
        /\ UNCHANGED loc
     \/ /\ pc[r] \in { "w_getBal", "w_begin", "w_getMe" }
        /\ Finish(r, "bad_request", 0, 0)
  /\ UNCHANGED << db, catalog, txOwner, txSnap, today, hist >>

\* POST /api/withdraw/request, body { userId, amount_ksh, phone_number }:
\* ensureWithdrawalsTable() (a PRAGMA and a CREATE TABLE IF NOT EXISTS, which
\* change no row), the validation of the body, and the handler's one
\* statement on the rows, the INSERT, reached at "q_ins".
RequestStart(r, u, amount) ==
  /\ CanStart(r)
  /\ LET new == [ NoLoc EXCEPT !.kind = "request", !.user = u, !.amount = amount ]
     IN  IF amount <= 0
           THEN /\ pc' = [ pc EXCEPT ![r] = "done" ]
                /\ resp' = [ resp EXCEPT ![r].status = "bad_request" ]
                /\ loc' = [ loc EXCEPT ![r] = Returned(new) ]
           ELSE /\ loc' = [ loc EXCEPT ![r] = new ]
                /\ Goto(r, "q_ins")
  /\ hist' = [ hist EXCEPT ![r].short = Short(u, amount) ]
  /\ UNCHANGED << db, catalog, txOwner, txSnap, today >>

\* const out = await run("INSERT INTO withdrawals ... 'pending'");
\* res.json({ ok: true, withdrawal_id, status: "pending" })
RequestInsert(r) ==
  /\ pc[r] = "q_ins"
  /\ IF loc[r].user \in db.users
       THEN /\ db' = InsertWithdrawal(db, loc[r].user, loc[r].amount)
            /\ Finish(r, "ok", 0, 0)
       ELSE /\ UNCHANGED db
            /\ Finish(r, "server_error", 0, 0)
  /\ Wrote(r)
  /\ UNCHANGED << catalog, txOwner, txSnap, today >>

\* POST /api/referrals/redeem
RedeemStart(r, u) ==
  /\ CanStart(r)
  /\ loc' = [ loc EXCEPT ![r] = [ NoLoc EXCEPT !.kind = "redeem", !.user = u ] ]
  /\ Goto(r, "r_get")
  /\ UNCHANGED << db, catalog, txOwner, txSnap, today, hist >>

\* const u = await get("SELECT bonus_ksh, balance_ksh ..."); if (!u) 404;
\* if ((u.bonus_ksh || 0) < 1000) 400
RedeemGet(r) ==
  /\ pc[r] = "r_get"
  /\ IF loc[r].user \notin db.users
       THEN Finish(r, "user_not_found", 0, 0)
     ELSE IF db.bonus[loc[r].user] < BonusBlock
       THEN Finish(r, "bonus_too_low", 0, 0)
     ELSE /\ Goto(r, "r_upd")
          /\ UNCHANGED loc
  /\ UNCHANGED << db, catalog, txOwner, txSnap, today, hist >>

\* await run("UPDATE users SET balance_ksh = balance_ksh + 1000, bonus_ksh = bonus_ksh - 1000 ...")
RedeemUpdate(r) ==
  /\ pc[r] = "r_upd"
  /\ db' = IF loc[r].user \in db.users THEN RedeemBlock(db, loc[r].user) ELSE db
  /\ Wrote(r)
  /\ Goto(r, "r_getMe")
  /\ UNCHANGED << catalog, txOwner, txSnap, today, loc >>

\* const me = await get(...); res.json({ ok: true, ...me })
RedeemGetMe(r) ==
  /\ pc[r] = "r_getMe"
  /\ Finish(r, "ok", IF loc[r].user \in db.users THEN db.bal[loc[r].user] ELSE 0, 0)
  /\ UNCHANGED << db, catalog, txOwner, txSnap, today, hist >>

RedeemStep(r) ==
  \/ RedeemGet(r)
  \/ RedeemUpdate(r)
  \/ RedeemGetMe(r)

(***************************************************************************)
(* POST /api/withdraw/mark-paid, body { withdrawal_id, receipt_ref }       *)
(***************************************************************************)
\* Who sends the request.  The route is registered without requireAuth and
\* the handler reads nothing of the caller: `who` is carried for the record
\* only, no guard mentions it.
Callers == { "anonymous", "user", "operator" }

\* UPDATE withdrawals SET status = 'paid', receipt_ref = ? WHERE id = ?
\* (ids are AUTOINCREMENT and no row of the table is deleted here: the row
\* of id k is the k-th row).
MarkPaidRow(d, id, ref) ==
  [ d EXCEPT !.wd[id].status = "paid", !.wd[id].receipt = ref ]

\* ensureWithdrawalsTable() (no row changes), Number(withdrawal_id),
\* String(receipt_ref).trim(), and the 400 for a blank receipt.
MarkPaidStart(r, who, id, ref) ==
  /\ CanStart(r)
  /\ LET new == [ NoLoc EXCEPT !.kind = "markpaid", !.who = who, !.dtId = id,
                               !.ref = Trim(ref) ]
     IN  IF Trim(ref) = << >>
           THEN /\ pc' = [ pc EXCEPT ![r] = "done" ]
                /\ resp' = [ resp EXCEPT ![r].status = "bad_request" ]
                /\ loc' = [ loc EXCEPT ![r] = Returned(new) ]
           ELSE /\ loc' = [ loc EXCEPT ![r] = new ]
                /\ Goto(r, "m_upd")
  /\ UNCHANGED << db, catalog, txOwner, txSnap, today, hist >>

\* await run("UPDATE withdrawals SET status = 'paid', receipt_ref = ? WHERE
\* id = ?"); res.json({ ok: true })   -- also when no row has that id.
MarkPaidUpdate(r) ==
  /\ pc[r] = "m_upd"
  /\ IF loc[r].dtId \in 1..Len(db.wd)
       THEN /\ db' = MarkPaidRow(db, loc[r].dtId, loc[r].ref)
            /\ Wrote(r)
       ELSE UNCHANGED << db, hist >>
  /\ pc' = [ pc EXCEPT ![r] = "done" ]
  /\ resp' = [ resp EXCEPT ![r].status = "ok" ]
  /\ loc' = [ loc EXCEPT ![r] = [ Returned(@) EXCEPT !.dtId = loc[r].dtId ] ]
  /\ UNCHANGED << catalog, txOwner, txSnap, today >>

\* catch (e) { res.status(500) }: the statement was rejected by the store.
MarkPaidFail(r) ==
  /\ pc[r] = "m_upd"
  /\ pc' = [ pc EXCEPT ![r] = "done" ]
  /\ resp' = [ resp EXCEPT ![r].status = "server_error" ]
  /\ loc' = [ loc EXCEPT ![r] = [ Returned(@) EXCEPT !.dtId = loc[r].dtId ] ]
  /\ UNCHANGED << db, catalog, txOwner, txSnap, today, hist >>

(***************************************************************************)
(* POST /api/auth/register                                                 *)
(***************************************************************************)
\* The id INSERT INTO users gives the new row: the next one of the bounded
\* id space (0: the space is used up).  No user is deleted where register
\* runs, so the smallest free id is the AUTOINCREMENT one.
NewUserId(d) ==
  IF Users \ d.users = {} THEN 0
  ELSE CHOOSE x \in Users \ d.users : \A y \in Users \ d.users : x <= y

\* INSERT INTO users (..., referred_by, balance_ksh, bonus_ksh) VALUES (..., ?, 0, 0)
InsertUser(d, id, ref) ==
  [ d EXCEPT !.users = @ \cup { id }, !.bal[id] = 0, !.balHalf[id] = 0,
             !.bonus[id] = 0, !.referredBy[id] = ref,
             !.deleteReq[id] = 0, !.deleteAt[id] = 0 ]

\* UPDATE users SET bonus_ksh = bonus_ksh + 100 WHERE id = ?
CreditReferrer(d, a) ==
  IF a \in d.users THEN [ d EXCEPT !.bonus[a] = @ + ReferralBonus ] ELSE d

\* RegisterSchema.parse, then the lookups of email and username, which find
\* nothing for the fresh email and username the model's clients send.  code
\* is the referral code given: 0 for none, else the id of the user whose
\* code it is (a code of no user is the id of no user).
RegisterStart(r, code) ==
  /\ CanStart(r)
  /\ NewUserId(db) # 0
  /\ loc' = [ loc EXCEPT ![r] = [ NoLoc EXCEPT !.kind = "register", !.amount = code ] ]
  /\ Goto(r, IF code = 0 THEN "g_ins" ELSE "g_ref")
  /\ UNCHANGED << db, catalog, txOwner, txSnap, today, hist >>

\* const ref = await get("SELECT id FROM users WHERE referral_code = ?");
\* if (!ref) 400 "Invalid referral code"
RegisterRef(r) ==
  /\ pc[r] = "g_ref"
  /\ IF loc[r].amount \in db.users
       THEN /\ Goto(r, "g_ins")
            /\ UNCHANGED loc
       ELSE Finish(r, "invalid_code", 0, 0)
  /\ UNCHANGED << db, catalog, txOwner, txSnap, today, hist >>

\* bcrypt.hash, the referral code of the new user, and
\* const userInsert = await run("INSERT INTO users ...").  referred_by
\* REFERENCES users(id): a referrer gone meanwhile is a constraint error (400).
RegisterInsert(r) ==
  /\ pc[r] = "g_ins"
  /\ LET id == NewUserId(db)
         ref == loc[r].amount
     IN  IF id = 0 \/ (ref # 0 /\ ref \notin db.users)
           THEN /\ Finish(r, "bad_request", 0, 0)
                /\ UNCHANGED << db, hist >>
         ELSE /\ db' = InsertUser(db, id, ref)
              /\ Wrote(r)
              /\ IF ref = 0
                   THEN /\ pc' = [ pc EXCEPT ![r] = "done" ]
                        /\ resp' = [ resp EXCEPT ![r].status = "ok" ]
                        /\ loc' = [ loc EXCEPT ![r] = [ Returned(@) EXCEPT !.user = id ] ]
                   ELSE /\ Goto(r, "g_bonus")
                        /\ loc' = [ loc EXCEPT ![r].user = id ]
  /\ UNCHANGED << catalog, txOwner, txSnap, today >>

\* if (referredById) await run("UPDATE users SET bonus_ksh = bonus_ksh + 100
\* WHERE id = ?"); res.json({ token })
RegisterBonus(r) ==
  /\ pc[r] = "g_bonus"
  /\ db' = CreditReferrer(db, loc[r].amount)
  /\ Wrote(r)
  /\ Finish(r, "ok", 0, 0)
  /\ UNCHANGED << catalog, txOwner, txSnap, today >>

\* catch (e) { res.status(400) }: a statement was rejected by the store.
RegisterFail(r) ==
  /\ pc[r] \in { "g_ref", "g_ins", "g_bonus" }
  /\ Finish(r, "bad_request", 0, 0)
  /\ UNCHANGED << db, catalog, txOwner, txSnap, today, hist >>

RegisterStep(r) ==
  \/ RegisterRef(r)
  \/ RegisterInsert(r)
  \/ RegisterBonus(r)

(***************************************************************************)
(* DELETE /api/me                                                          *)
(***************************************************************************)
\* DELETE FROM users WHERE id = ? with foreign_keys = ON: the user's
\* daily_tasks, task_completions and withdrawals rows go with the row
\* (ON DELETE CASCADE).
DeleteUserCascade(d, u) ==
  [ d EXCEPT !.users = @ \ { u },
             !.daily = SelectSeq(@, LAMBDA row : row.user # u),
             !.tc = SelectSeq(@, LAMBDA row : row.user # u),
             !.wd = SelectSeq(@, LAMBDA row : row.user # u) ]

\* users.referred_by REFERENCES users(id) has no ON DELETE action: the row
\* of a user whom another user names as referrer cannot be deleted.
IsReferrer(d, u) == \E v \in d.users : v # u /\ d.referredBy[v] = u

\* requireAuth (the token is valid; the row is not looked up).
DeleteMeStart(r, u) ==
  /\ CanStart(r)
  /\ loc' = [ loc EXCEPT ![r] = [ NoLoc EXCEPT !.kind = "deleteme", !.user = u ] ]
  /\ Goto(r, "d_del")
  /\ UNCHANGED << db, catalog, txOwner, txSnap, today, hist >>

\* await run("DELETE FROM users WHERE id = ?"); res.json({ ok: true }).
\* The handler has no try/catch: a rejected DELETE leaves the request
\* without a response.
DeleteMeRun(r) ==
  /\ pc[r] = "d_del"
  /\ IF IsReferrer(db, loc[r].user)
       THEN /\ pc' = [ pc EXCEPT ![r] = "done" ]
            /\ resp' = [ resp EXCEPT ![r].status = "no_response" ]
            /\ loc' = [ loc EXCEPT ![r] = Returned(@) ]
            /\ UNCHANGED << db, hist >>
       ELSE /\ db' = DeleteUserCascade(db, loc[r].user)
            /\ Wrote(r)
            /\ Finish(r, "ok", 0, 0)
  /\ UNCHANGED << catalog, txOwner, txSnap, today >>

(***************************************************************************)
(* Specifications of the withdrawals and of the bonus wallet               *)
(***************************************************************************)
\* complete, start to finish, with no other request in the way.
CompleteNow(d, u, day, t) ==
  LET row == DailyRow(d, u, day, t)[1] IN
    AddBalance(InsertCompletion(MarkCompleted(d, row.id, << "a", "b" >>),
                                u, day, t, SeedReward(t), << "a", "b" >>),
               u, SeedReward(t))

\* The wallet of user 1: tasks 1 and 2 of the day completed (18 + 12) and
\* ten users registered with user 1's referral code (10 * 100 = BonusBlock).
WalletDb ==
  LET d0 == AllocateAll(EmptyDb, Users)
      d1 == CompleteNow(CompleteNow(d0, 1, 1, 1), 1, 1, 2)
  IN  [ d1 EXCEPT !.bonus[1] = BonusBlock ]

\* Amounts asked: none, less than the wallet holds, more than it holds.
WithdrawAmounts == { 0, 20, 40 }
WithdrawUsers == { 1 }

InitWithdraw ==
  /\ db = WalletDb
  /\ catalog = SeedCatalog
  /\ txOwner = 0
  /\ txSnap = EmptyDb
  /\ today = 1
  /\ pc = [ r \in Reqs |-> "idle" ]
  /\ loc = [ r \in Reqs |-> NoLoc ]
  /\ resp = [ r \in Reqs |-> NoResp ]
  /\ hist = [ r \in Reqs |-> NoHist ]

\* Withdrawals and redemptions whose statements interleave.
NextWithdraw ==
  \/ \E r \in Reqs, u \in WithdrawUsers, a \in WithdrawAmounts : WithdrawStart(r, u, a)
  \/ \E r \in Reqs : WithdrawStep(r)
  \/ \E r \in Reqs : WithdrawStoreFail(r)
  \/ \E r \in Reqs, u \in WithdrawUsers : RedeemStart(r, u)
  \/ \E r \in Reqs : RedeemStep(r)
  \/ Crash

SpecWithdraw == InitWithdraw /\ [][NextWithdraw]_vars

\* Withdrawal requests through either route, one after the other.
NextWithdrawSeq ==
  \/ \E r \in Reqs, u \in WithdrawUsers, a \in WithdrawAmounts :
       (\A q \in Reqs : ~InFlight(q)) /\ WithdrawStart(r, u, a)
  \/ \E r \in Reqs, u \in WithdrawUsers, a \in WithdrawAmounts :
       (\A q \in Reqs : ~InFlight(q)) /\ RequestStart(r, u, a)
  \/ \E r \in Reqs : WithdrawStep(r)
  \/ \E r \in Reqs : RequestInsert(r)
  \/ \E r \in Reqs : WithdrawStoreFail(r)
  \/ Crash

SpecWithdrawSeq == InitWithdraw /\ [][NextWithdrawSeq]_vars

(***************************************************************************)
(* POST /api/account/delete-request and, in the older revision,            *)
(* POST /api/me/delete-request                                             *)
(***************************************************************************)
\* Mutant: the statement sets delete_effective_at alone.
RequestDeletionEffectiveOnly(d, u, req, eff) ==
  IF u \in d.users THEN [ d EXCEPT !.deleteAt[u] = eff ] ELSE d

\* UPDATE users SET delete_requested_at = <req>, delete_effective_at = <eff>
\* WHERE id = ?  (no row of a user who is gone)
RequestDeletion(d, u, req, eff) ==
  IF u \in d.users THEN [ d EXCEPT !.deleteReq[u] = req, !.deleteAt[u] = eff ] ELSE d

\* const effective = new Date(Date.now() + 7 * 24 * 3600 * 1000).toISOString()
DeleteRequestStart(r, u) ==
  /\ CanStart(r)
  /\ loc' = [ loc EXCEPT ![r] = [ NoLoc EXCEPT !.kind = "deleterequest", !.user = u,
                                               !.at = today + GraceDays ] ]
  /\ Goto(r, "dr_upd")
  /\ UNCHANGED << db, catalog, txOwner, txSnap, today, hist >>

\* await run("UPDATE users SET delete_requested_at=CURRENT_TIMESTAMP,
\* delete_effective_at=? WHERE id=?"): CURRENT_TIMESTAMP is the instant at
\* which the statement runs.  res.json({ ok: true, delete_effective_at })
DeleteRequestUpdate(r) ==
  /\ pc[r] = "dr_upd"
  /\ db' = RequestDeletion(db, loc[r].user, today, loc[r].at)
  /\ Wrote(r)
  /\ Finish(r, "ok", 0, 0)
  /\ UNCHANGED << catalog, txOwner, txSnap, today >>

\* catch (e) { res.status(500) }
DeleteRequestFail(r) ==
  /\ pc[r] = "dr_upd"
  /\ Finish(r, "server_error", 0, 0)
  /\ UNCHANGED << db, catalog, txOwner, txSnap, today, hist >>

\* Older revision: const now = new Date().toISOString();
\* const effective = plusDaysISO(7);
OldDeleteRequestStart(r, u) ==
  /\ CanStart(r)
  /\ loc' = [ loc EXCEPT ![r] = [ NoLoc EXCEPT !.kind = "olddeleterequest", !.user = u,
                                               !.day = today,
                                               !.at = today + GraceDays ] ]
  /\ Goto(r, "odr_upd")
  /\ UNCHANGED << db, catalog, txOwner, txSnap, today, hist >>

\* await run(`UPDATE users SET delete_requested_at = ?, delete_effective_at = ?
\* WHERE id = ?`, [now, effective, req.user.id]); res.json({ ok: true, ... })
OldDeleteRequestUpdate(r) ==
  /\ pc[r] = "odr_upd"
  /\ db' = RequestDeletion(db, loc[r].user, loc[r].day, loc[r].at)
  /\ Wrote(r)
  /\ Finish(r, "ok", 0, 0)
  /\ UNCHANGED << catalog, txOwner, txSnap, today >>

\* No try/catch in that handler: a rejected statement leaves the request
\* without a response.
OldDeleteRequestFail(r) ==
  /\ pc[r] = "odr_upd"
  /\ Finish(r, "no_response", 0, 0)
  /\ UNCHANGED << db, catalog, txOwner, txSnap, today, hist >>

(***************************************************************************)
(* Specification of the delete requests                                    *)
(***************************************************************************)
DeleteRequestUsers == { 1, 2 }

\* Delete requests through the route of either revision, overlapping, while
\* the days pass; a statement may be rejected and the process may stop.
NextDeleteRequest ==
  \/ \E r \in Reqs, u \in DeleteRequestUsers : DeleteRequestStart(r, u)
  \/ \E r \in Reqs : DeleteRequestUpdate(r)
  \/ \E r \in Reqs : DeleteRequestFail(r)
  \/ \E r \in Reqs, u \in DeleteRequestUsers : OldDeleteRequestStart(r, u)
  \/ \E r \in Reqs : OldDeleteRequestUpdate(r)
  \/ \E r \in Reqs : OldDeleteRequestFail(r)
  \/ AdvanceDay
  \/ Crash

SpecDeleteRequest == Init /\ [][NextDeleteRequest]_vars

(***************************************************************************)
(* Specification of the withdrawals of any positive amount                 *)
(***************************************************************************)
\* Amounts asked, << whole, half >>: 0, 0.5, 20, 20.5 and 30.5 (the wallet
\* holds 30).
NumberAmounts == { << 0, 0 >>, << 0, 1 >>, << 20, 0 >>, << 20, 1 >>, << 30, 1 >> }

\* One request after the other; any statement may be rejected.
NextNumberSeq ==
  \/ \E r \in Reqs, u \in WithdrawUsers, a \in NumberAmounts :
       (\A q \in Reqs : ~InFlight(q)) /\ WithdrawStartNumber(r, u, a[1], a[2])
  \/ \E r \in Reqs : WithdrawStep(r)
  \/ \E r \in Reqs : WithdrawStoreFail(r)

SpecNumberSeq == InitWithdraw /\ [][NextNumberSeq]_vars

(***************************************************************************)
(* Specification of the overlapping balance mutations of one user          *)
(***************************************************************************)
\* One request slot more than elsewhere: a completion, a withdrawal and a
\* redemption of user 1 are in flight together.
OverlapReqs == 1..(NumReq + 1)

\* << user, task >> of the completion (assigned, not completed in WalletDb),
\* its answer, and the amount withdrawn.
OverlapInput == << 1, 3 >>
OverlapAnswer == << "a", "b" >>
OverlapAmount == 20

\* No request of that kind was sent yet.
NoneOf(kind) == \A q \in DOMAIN pc : loc[q].kind # kind

InitOverlap ==
  /\ db = WalletDb
  /\ catalog = SeedCatalog
  /\ txOwner = 0
  /\ txSnap = EmptyDb
  /\ today = 1
  /\ pc = [ r \in OverlapReqs |-> "idle" ]
  /\ loc = [ r \in OverlapReqs |-> NoLoc ]
  /\ resp = [ r \in OverlapReqs |-> NoResp ]
  /\ hist = [ r \in OverlapReqs |-> NoHist ]

\* One request of each kind, started in any order, their statements
\* interleaved on the one connection; any statement may be rejected and the
\* process may stop.
NextOverlap ==
  \/ \E r \in OverlapReqs :
       NoneOf("complete") /\ CompleteStart(r, OverlapInput[1], OverlapInput[2], OverlapAnswer)
  \/ \E r \in OverlapReqs : CompleteStep(r)
  \/ \E r \in OverlapReqs : StoreFail(r)
  \/ \E r \in OverlapReqs :
       NoneOf("withdraw") /\ WithdrawStart(r, OverlapInput[1], OverlapAmount)
  \/ \E r \in OverlapReqs : WithdrawStep(r)
  \/ \E r \in OverlapReqs : WithdrawStoreFail(r)
  \/ \E r \in OverlapReqs : NoneOf("redeem") /\ RedeemStart(r, OverlapInput[1])
  \/ \E r \in OverlapReqs : RedeemStep(r)
  \/ Crash

SpecOverlap == InitOverlap /\ [][NextOverlap]_vars

(***************************************************************************)
(* Specification of the ledger of one user                                 *)
(***************************************************************************)
\* Every request that writes the balance or the withdrawals of user 1, one
\* request after the other: a completion, a withdrawal through either
\* endpoint, a redemption; any statement may be rejected.
LedgerAmounts == { 20 }

NextLedger ==
  \/ \E r \in Reqs :
       (\A q \in Reqs : ~InFlight(q))
         /\ CompleteStart(r, OverlapInput[1], OverlapInput[2], OverlapAnswer)
  \/ \E r \in Reqs, a \in LedgerAmounts :
       (\A q \in Reqs : ~InFlight(q)) /\ WithdrawStart(r, OverlapInput[1], a)
  \/ \E r \in Reqs, a \in LedgerAmounts :
       (\A q \in Reqs : ~InFlight(q)) /\ RequestStart(r, OverlapInput[1], a)
  \/ \E r \in Reqs :
       (\A q \in Reqs : ~InFlight(q)) /\ RedeemStart(r, OverlapInput[1])
  \/ \E r \in Reqs : CompleteStep(r)
  \/ \E r \in Reqs : StoreFail(r)
  \/ \E r \in Reqs : WithdrawStep(r)
  \/ \E r \in Reqs : WithdrawStoreFail(r)
  \/ \E r \in Reqs : RequestInsert(r)
  \/ \E r \in Reqs : RedeemStep(r)

SpecLedger == InitWithdraw /\ [][NextLedger]_vars

(***************************************************************************)
(* Specification of the last completion of the day                         *)
(***************************************************************************)
\* The store in which user 1 has completed four of the day's five
\* assignments; the requests complete the fifth.
LimitDb ==
  LET d0 == AllocateAll(EmptyDb, Users)
  IN  CompleteNow(CompleteNow(CompleteNow(CompleteNow(d0, 1, 1, 1), 1, 1, 2), 1, 1, 3), 1, 1, 4)

LimitInputs == { << 1, 5 >> }

InitLimit ==
  /\ db = LimitDb
  /\ catalog = SeedCatalog
  /\ txOwner = 0
  /\ txSnap = EmptyDb
  /\ today = 1
  /\ pc = [ r \in Reqs |-> "idle" ]
  /\ loc = [ r \in Reqs |-> NoLoc ]
  /\ resp = [ r \in Reqs |-> NoResp ]
  /\ hist = [ r \in Reqs |-> NoHist ]

NextLimit ==
  \/ \E r \in Reqs, i \in LimitInputs, a \in Answers : CompleteStart(r, i[1], i[2], a)
  \/ \E r \in Reqs : CompleteStep(r)
  \/ \E r \in Reqs : StoreFail(r)
  \/ Crash

SpecLimit == InitLimit /\ [][NextLimit]_vars

(***************************************************************************)
(* Specification of the repeated allocation inserts                        *)
(***************************************************************************)
\* Listing requests of user 1 race on an empty day, AbsorbRacers of them at
\* most; once one of them has been answered the user completes a task of
\* the list, while the other has come to its inserts.  A statement of the
\* completion's transaction may be rejected.
AbsorbRacers == 2
AbsorbUser == OverlapInput[1]
AbsorbTasks == { 5 }
AbsorbAnswer == << "a", "b" >>

Listed ==
  /\ \E q \in DOMAIN pc : loc[q].kind = "tasks" /\ resp[q].status = "ok"
  /\ \E q \in DOMAIN pc : pc[q] = "e_insert"

Started(kind) == { q \in DOMAIN pc : loc[q].kind = kind }

InitAbsorb ==
  /\ db = EmptyDb
  /\ catalog = SeedCatalog
  /\ txOwner = 0
  /\ txSnap = EmptyDb
  /\ today = 1
  /\ pc = [ r \in OverlapReqs |-> "idle" ]
  /\ loc = [ r \in OverlapReqs |-> NoLoc ]
  /\ resp = [ r \in OverlapReqs |-> NoResp ]
  /\ hist = [ r \in OverlapReqs |-> NoHist ]

NextAbsorb ==
  \/ \E r \in OverlapReqs :
       Cardinality(Started("tasks")) < AbsorbRacers /\ TasksStart(r, AbsorbUser)
  \/ \E r \in OverlapReqs : TasksStep(r)
  \/ \E r \in OverlapReqs, t \in AbsorbTasks :
       Listed /\ NoneOf("complete") /\ CompleteStart(r, AbsorbUser, t, AbsorbAnswer)
  \/ \E r \in OverlapReqs : CompleteStep(r)
  \/ \E r \in OverlapReqs : pc[r] \in InTxBody /\ StoreFail(r)

SpecAbsorb == InitAbsorb /\ [][NextAbsorb]_vars

(***************************************************************************)
(* Specification of the rejections of complete                             *)
(***************************************************************************)
\* The store in which user 1 has completed task 2 of the day.
OrderDb == CompleteNow(AllocateAll(EmptyDb, Users), 1, 1, 2)

\* << user, task >>: an assignment to complete, a completed one, and a task
\* assigned to nobody; each of the tasks may be switched off at any time.
OrderInputs == { << 1, 1 >>, << 1, 2 >>, << 1, NumTasks >> }
OrderDeactivated == { 1, 2, NumTasks }

InitOrder ==
  /\ db = OrderDb
  /\ catalog = SeedCatalog
  /\ txOwner = 0
  /\ txSnap = EmptyDb
  /\ today = 1
  /\ pc = [ r \in Reqs |-> "idle" ]
  /\ loc = [ r \in Reqs |-> NoLoc ]
  /\ resp = [ r \in Reqs |-> NoResp ]
  /\ hist = [ r \in Reqs |-> NoHist ]

NextOrder ==
  \/ \E r \in Reqs, i \in OrderInputs, a \in Answers :
       CompleteStart(r, i[1], i[2], a)
  \/ \E r \in Reqs : CompleteStep(r)
  \/ \E r \in Reqs : StoreFail(r)
  \/ Crash
  \/ \E t \in OrderDeactivated : Deactivate(t)

SpecOrder == InitOrder /\ [][NextOrder]_vars

(***************************************************************************)
(* Specification of the payout of withdrawal requests                      *)
(***************************************************************************)
\* The wallet of user 1 with one request of 10 filed through
\* POST /api/withdraw/request (which debits nothing).
PaidDb == InsertWithdrawal(WalletDb, 1, 10)

PaidAmounts == { 20 }
PaidIds == { 1, 2 }
PaidRefs == { << " " >>, << "r", "1" >> }

InitPaid ==
  /\ db = PaidDb
  /\ catalog = SeedCatalog
  /\ txOwner = 0
  /\ txSnap = EmptyDb
  /\ today = 1
  /\ pc = [ r \in Reqs |-> "idle" ]
  /\ loc = [ r \in Reqs |-> NoLoc ]
  /\ resp = [ r \in Reqs |-> NoResp ]
  /\ hist = [ r \in Reqs |-> NoHist ]

\* Withdrawals, requests and mark-paid calls whose statements interleave on
\* the one connection.
NextPaid ==
  \/ \E r \in Reqs, u \in WithdrawUsers, a \in PaidAmounts : WithdrawStart(r, u, a)
  \/ \E r \in Reqs : WithdrawStep(r)
  \/ \E r \in Reqs : WithdrawStoreFail(r)
  \/ \E r \in Reqs, u \in WithdrawUsers, a \in PaidAmounts : RequestStart(r, u, a)
  \/ \E r \in Reqs : RequestInsert(r)
  \/ \E r \in Reqs, who \in Callers, id \in PaidIds, ref \in PaidRefs :
       MarkPaidStart(r, who, id, ref)
  \/ \E r \in Reqs : MarkPaidUpdate(r)
  \/ \E r \in Reqs : MarkPaidFail(r)
  \/ Crash

SpecPaid == InitPaid /\ [][NextPaid]_vars

\* The same, with no two requests overlapping and no failure of the store.
NextPaidSeq ==
  \/ \E r \in Reqs, u \in WithdrawUsers, a \in PaidAmounts :
       (\A q \in Reqs : ~InFlight(q)) /\ WithdrawStart(r, u, a)
  \/ \E r \in Reqs : WithdrawStep(r)
  \/ \E r \in Reqs, u \in WithdrawUsers, a \in PaidAmounts :
       (\A q \in Reqs : ~InFlight(q)) /\ RequestStart(r, u, a)
  \/ \E r \in Reqs : RequestInsert(r)
  \/ \E r \in Reqs, who \in Callers, id \in PaidIds, ref \in PaidRefs :
       (\A q \in Reqs : ~InFlight(q)) /\ MarkPaidStart(r, who, id, ref)
  \/ \E r \in Reqs : MarkPaidUpdate(r)

SpecPaidSeq == InitPaid /\ [][NextPaidSeq]_vars

(***************************************************************************)
(* Specification of the registrations                                      *)
(***************************************************************************)
\* The store when user 1 alone is registered, with the day's tasks assigned.
RegisterDb ==
  LET d0 == [ EmptyDb EXCEPT !.users = { 1 }, !.bonus = [ u \in Users |-> 0 ],
                             !.referredBy = [ u \in Users |-> 0 ] ]
  IN  Allocate(d0, 1, 1, FirstOfEachType)

\* Referral codes sent: none, user 1's, and a code of nobody.
RegisterCodes == { 0, 1, NumUsers + 1 }
RegisterInputs == { << 1, 1 >> }

InitRegister ==
  /\ db = RegisterDb
  /\ catalog = SeedCatalog
  /\ txOwner = 0
  /\ txSnap = EmptyDb
  /\ today = 1
  /\ pc = [ r \in Reqs |-> "idle" ]
  /\ loc = [ r \in Reqs |-> NoLoc ]
  /\ resp = [ r \in Reqs |-> NoResp ]
  /\ hist = [ r \in Reqs |-> NoHist ]

\* Registrations and completions of user 1 whose statements interleave.
NextRegister ==
  \/ \E r \in Reqs, code \in RegisterCodes : RegisterStart(r, code)
  \/ \E r \in Reqs : RegisterStep(r)
  \/ \E r \in Reqs : RegisterFail(r)
  \/ \E r \in Reqs, i \in RegisterInputs, a \in Answers :
       CompleteStart(r, i[1], i[2], a)
  \/ \E r \in Reqs : CompleteStep(r)
  \/ \E r \in Reqs : StoreFail(r)

SpecRegister == InitRegister /\ [][NextRegister]_vars

(***************************************************************************)
(* Specification of the account deletion                                   *)
(***************************************************************************)
DeleteUsers == { 1, 2 }
DeleteInputs == { << 2, 1 >>, << 1, 1 >> }

\* DELETE /api/me and completions whose statements interleave.
NextDelete ==
  \/ \E r \in Reqs, u \in DeleteUsers : DeleteMeStart(r, u)
  \/ \E r \in Reqs : DeleteMeRun(r)
  \/ \E r \in Reqs, i \in DeleteInputs, a \in Answers :
       CompleteStart(r, i[1], i[2], a)
  \/ \E r \in Reqs : CompleteStep(r)
  \/ \E r \in Reqs : StoreFail(r)

SpecDelete == Init /\ [][NextDelete]_vars

(***************************************************************************)
(* purgeDeletedAccounts and POST /api/withdrawals of the revision that has *)
(* the reaper (server index.js of 2026-01-18 23:07).  Its db.js creates    *)
(* the tables with plain REFERENCES and never turns foreign_keys on: no    *)
(* statement is refused or cascaded on behalf of a foreign key.            *)
(***************************************************************************)
\* SELECT id FROM users WHERE delete_effective_at IS NOT NULL AND
\* datetime(delete_effective_at) <= datetime("now")   (0 stands for NULL)
Doomed(d, now) == { u \in d.users : d.deleteAt[u] # 0 /\ d.deleteAt[u] <= now }

\* The rows of a result set, by id.
RECURSIVE SetToSeq(_)
SetToSeq(S) ==
  IF S = {} THEN << >>
  ELSE LET m == CHOOSE x \in S : \A y \in S : x <= y
       IN  << m >> \o SetToSeq(S \ { m })

\* The five DELETE statements of the sweep for user u.
PurgeDelete(d, u, stmt) ==
  CASE stmt = "p_tc"     -> [ d EXCEPT !.tc = SelectSeq(@, LAMBDA row : row.user # u) ]
    [] stmt = "p_wd"     -> [ d EXCEPT !.wd = SelectSeq(@, LAMBDA row : row.user # u) ]
    [] stmt = "p_daily"  -> [ d EXCEPT !.daily = SelectSeq(@, LAMBDA row : row.user # u) ]
    [] stmt = "p_grants" -> [ d EXCEPT !.grants = { g \in @ : g[1] # u /\ g[2] # u } ]
    [] stmt = "p_user"   -> [ d EXCEPT !.users = @ \ { u } ]

\* The statement that follows stmt in the body of `for (const u of doomed)`.
PurgeAfter(stmt) ==
  CASE stmt = "p_tc"     -> "p_wd"
    [] stmt = "p_wd"     -> "p_daily"
    [] stmt = "p_daily"  -> "p_grants"
    [] stmt = "p_grants" -> "p_user"
    [] stmt = "p_user"   -> "p_tc"

PurgeStmts == { "p_tc", "p_wd", "p_daily", "p_grants", "p_user" }

\* setInterval(purgeDeletedAccounts, 60 * 60 * 1000) fires (GET /api/health
\* runs the same function).
PurgeStart(r) ==
  /\ CanStart(r)
  /\ loc' = [ loc EXCEPT ![r] = [ NoLoc EXCEPT !.kind = "purge" ] ]
  /\ Goto(r, "p_select")
  /\ UNCHANGED << db, catalog, txOwner, txSnap, today, hist >>

\* purgeDeletedAccounts returns: the timer's call is over; a handler that
\* awaited it (`await purgeDeletedAccounts()`) goes on with its own body.
PurgeReturn(r) ==
  IF loc[r].kind = "purge"
    THEN Finish(r, "ok", 0, 0)
    ELSE /\ Goto(r, "oc_task")
         /\ loc' = [ loc EXCEPT ![r].picks = << >>, ![r].i = 0 ]

\* const doomed = await all(...)
PurgeSelect(r) ==
  /\ pc[r] = "p_select"
  /\ LET doomed == SetToSeq(Doomed(db, today)) IN
       /\ hist' = [ hist EXCEPT ![r].swept = Range(doomed) ]
       /\ IF doomed = << >>
            THEN PurgeReturn(r)
            ELSE /\ loc' = [ loc EXCEPT ![r].picks = doomed, ![r].i = 1 ]
                 /\ Goto(r, "p_tc")
  /\ UNCHANGED << db, catalog, txOwner, txSnap, today >>

\* One DELETE of the loop body, for doomed[i].
PurgeStep(r) ==
  /\ pc[r] \in PurgeStmts
  /\ db' = PurgeDelete(db, loc[r].picks[loc[r].i], pc[r])
  /\ IF pc[r] = "p_user" /\ loc[r].i = Len(loc[r].picks)
       THEN PurgeReturn(r)
       ELSE /\ loc' = [ loc EXCEPT ![r].i = IF pc[r] = "p_user" THEN @ + 1 ELSE @ ]
            /\ Goto(r, PurgeAfter(pc[r]))
  /\ Wrote(r)
  /\ UNCHANGED << catalog, txOwner, txSnap, today >>

\* POST /api/withdrawals of that revision: schema.parse, then the balance.
OldWithdrawStart(r, u, amount) ==
  /\ CanStart(r)
  /\ LET new == [ NoLoc EXCEPT !.kind = "oldwithdraw", !.user = u, !.amount = amount ]
     IN  IF amount > 0
           THEN /\ loc' = [ loc EXCEPT ![r] = new ]
                /\ Goto(r, "ow_getBal")
           ELSE /\ pc' = [ pc EXCEPT ![r] = "done" ]
                /\ resp' = [ resp EXCEPT ![r].status = "bad_request" ]
                /\ loc' = [ loc EXCEPT ![r] = Returned(new) ]
  /\ UNCHANGED << db, catalog, txOwner, txSnap, today, hist >>

\* const u = await get("SELECT balance_ksh ..."); if (!u) 400; if (u.balance_ksh < data.amount) 400
OldWithdrawGetBal(r) ==
  /\ pc[r] = "ow_getBal"
  /\ IF loc[r].user \notin db.users
       THEN Finish(r, "user_not_found", 0, 0)
     ELSE IF db.bal[loc[r].user] < loc[r].amount
       THEN Finish(r, "insufficient_balance", 0, 0)
     ELSE /\ Goto(r, "ow_ins")
          /\ UNCHANGED loc
  /\ UNCHANGED << db, catalog, txOwner, txSnap, today, hist >>

\* await run("INSERT INTO withdrawals ... 'pending'")
OldWithdrawInsert(r) ==
  /\ pc[r] = "ow_ins"
  /\ db' = InsertWithdrawal(db, loc[r].user, loc[r].amount)
  /\ Wrote(r)
  /\ Goto(r, "ow_upd")
  /\ UNCHANGED << catalog, txOwner, txSnap, today, loc >>

\* await run("UPDATE users SET balance_ksh = balance_ksh - ? WHERE id = ?"); res.json({ ok: true })
OldWithdrawUpdBal(r) ==
  /\ pc[r] = "ow_upd"
  /\ db' = IF loc[r].user \in db.users
             THEN AddBalance(db, loc[r].user, 0 - loc[r].amount) ELSE db
  /\ Wrote(r)
  /\ Finish(r, "ok", 0, 0)
  /\ UNCHANGED << catalog, txOwner, txSnap, today >>

OldWithdrawStep(r) ==
  \/ OldWithdrawGetBal(r)
  \/ OldWithdrawInsert(r)
  \/ OldWithdrawUpdBal(r)

\* POST /api/tasks/:id/complete of that revision.  `await
\* purgeDeletedAccounts()` comes first: the handler runs the whole sweep
\* before its own body.
OldCompleteStart(r, u, t) ==
  /\ CanStart(r)
  /\ loc' = [ loc EXCEPT ![r] = [ NoLoc EXCEPT !.kind = "oldcomplete", !.user = u, !.task = t ] ]
  /\ Goto(r, "p_select")
  /\ UNCHANGED << db, catalog, txOwner, txSnap, today, hist >>

\* const task = await get("SELECT id, reward_ksh FROM tasks WHERE id = ? AND
\* active = 1"); if (!task) 404; const today = dayUTC()
OldCompleteTask(r) ==
  /\ pc[r] = "oc_task"
  /\ IF loc[r].task \in DOMAIN catalog /\ catalog[loc[r].task].active
       THEN /\ loc' = [ loc EXCEPT ![r].reward = catalog[loc[r].task].reward,
                                   ![r].day = today ]
            /\ Goto(r, "oc_assigned")
       ELSE Finish(r, "task_not_found", 0, 0)
  /\ UNCHANGED << db, catalog, txOwner, txSnap, today, hist >>

\* const assigned = await get("SELECT id FROM daily_tasks WHERE user_id = ?
\* AND day = ? AND task_id = ?"); if (!assigned) 400
OldCompleteAssigned(r) ==
  /\ pc[r] = "oc_assigned"
  /\ IF DailyRow(db, loc[r].user, loc[r].day, loc[r].task) = << >>
       THEN Finish(r, "not_assigned", 0, 0)
       ELSE /\ Goto(r, "oc_count")
            /\ UNCHANGED loc
  /\ UNCHANGED << db, catalog, txOwner, txSnap, today, hist >>

\* SELECT COUNT(*) FROM task_completions WHERE user_id = ? AND
\* date(created_at) = date("now"); if (c >= 5) 400
OldCompleteCount(r) ==
  /\ pc[r] = "oc_count"
  /\ LET mine == SelectSeq(db.tc, LAMBDA row : row.user = loc[r].user /\ row.day = today)
     IN  IF Len(mine) >= DailyLimit
           THEN Finish(r, "daily_limit", 0, 0)
           ELSE /\ Goto(r, "oc_insTc")
                /\ UNCHANGED loc
  /\ UNCHANGED << db, catalog, txOwner, txSnap, today, hist >>

\* await run("INSERT INTO task_completions (user_id, task_id, reward_ksh,
\* answer_text) ..."): created_at defaults to the instant of the insert.
OldCompleteInsertTc(r) ==
  /\ pc[r] = "oc_insTc"
  /\ db' = InsertCompletion(db, loc[r].user, today, loc[r].task, loc[r].reward, << >>)
  /\ Wrote(r)
  /\ Goto(r, "oc_updBal")
  /\ UNCHANGED << catalog, txOwner, txSnap, today, loc >>

\* await run("UPDATE users SET balance_ksh = balance_ksh + ? WHERE id = ?")
OldCompleteUpdBal(r) ==
  /\ pc[r] = "oc_updBal"
  /\ db' = AddBalance(db, loc[r].user, loc[r].reward)
  /\ Wrote(r)
  /\ Goto(r, "oc_me")
  /\ UNCHANGED << catalog, txOwner, txSnap, today, loc >>

\* const me = await get("SELECT id, referred_by FROM users WHERE id = ?");
\* if (me && me.referred_by) { ... }      (loc.amount holds me.referred_by)
OldCompleteMe(r) ==
  /\ pc[r] = "oc_me"
  /\ IF loc[r].user \in db.users /\ db.referredBy[loc[r].user] # 0
       THEN /\ loc' = [ loc EXCEPT ![r].amount = db.referredBy[loc[r].user] ]
            /\ Goto(r, "oc_any")
       ELSE /\ Goto(r, "oc_updated")
            /\ UNCHANGED loc
  /\ UNCHANGED << db, catalog, txOwner, txSnap, today, hist >>

\* const anyCompletion = await get("SELECT COUNT(*) ... WHERE user_id = ?");
\* if (c === 1) { ... }
OldCompleteAny(r) ==
  /\ pc[r] = "oc_any"
  /\ Goto(r, IF Len(SelectSeq(db.tc, LAMBDA row : row.user = loc[r].user)) = 1
               THEN "oc_already" ELSE "oc_updated")
  /\ UNCHANGED << db, catalog, txOwner, txSnap, today, loc, hist >>

\* const already = await get("SELECT id FROM referral_rewards WHERE
\* referrer_id = ? AND referred_user_id = ?"); if (!already) { ... }
OldCompleteAlready(r) ==
  /\ pc[r] = "oc_already"
  /\ Goto(r, IF << loc[r].amount, loc[r].user >> \in db.grants
               THEN "oc_updated" ELSE "oc_insGrant")
  /\ UNCHANGED << db, catalog, txOwner, txSnap, today, loc, hist >>

\* The handler has no try/catch: a statement that rejects leaves the request
\* without a response (the rejection of the async handler is unhandled); what
\* it wrote before stays, no transaction being open.
OldCompleteReject(r) ==
  /\ pc' = [ pc EXCEPT ![r] = "done" ]
  /\ resp' = [ resp EXCEPT ![r] = [ NoResp EXCEPT !.status = "no_response" ] ]
  /\ loc' = [ loc EXCEPT ![r] = Returned(@) ]

\* await run("INSERT INTO referral_rewards (referrer_id, referred_user_id)
\* ..."): UNIQUE(referrer_id, referred_user_id) refuses a second row.
OldCompleteInsertGrant(r) ==
  /\ pc[r] = "oc_insGrant"
  /\ IF << loc[r].amount, loc[r].user >> \in db.grants
       THEN /\ OldCompleteReject(r)
            /\ UNCHANGED << db, hist >>
       ELSE /\ db' = [ db EXCEPT !.grants = @ \cup { << loc[r].amount, loc[r].user >> } ]
            /\ Wrote(r)
            /\ Goto(r, "oc_bonus")
            /\ UNCHANGED loc
  /\ UNCHANGED << catalog, txOwner, txSnap, today >>

\* await run("UPDATE users SET bonus_ksh = bonus_ksh + 100 WHERE id = ?")
OldCompleteBonus(r) ==
  /\ pc[r] = "oc_bonus"
  /\ db' = IF loc[r].amount \in db.users
             THEN [ db EXCEPT !.bonus[loc[r].amount] = @ + ReferralBonus ] ELSE db
  /\ Wrote(r)
  /\ Goto(r, "oc_updated")
  /\ UNCHANGED << catalog, txOwner, txSnap, today, loc >>

\* const updated = await get("SELECT balance_ksh ..."); res.json({ ok: true,
\* balance_ksh: updated.balance_ksh })   (updated is undefined for a row gone)
OldCompleteUpdated(r) ==
  /\ pc[r] = "oc_updated"
  /\ IF loc[r].user \in db.users
       THEN Finish(r, "ok", db.bal[loc[r].user], 0)
       ELSE OldCompleteReject(r)
  /\ UNCHANGED << db, catalog, txOwner, txSnap, today, hist >>

OldCompleteBody ==
  { "oc_task", "oc_assigned", "oc_count", "oc_insTc", "oc_updBal", "oc_me",
    "oc_any", "oc_already", "oc_insGrant", "oc_bonus", "oc_updated" }

\* A statement of the handler's body is rejected by the store (SQLITE_BUSY,
\* I/O error).
OldCompleteFail(r) ==
  /\ pc[r] \in OldCompleteBody
  /\ OldCompleteReject(r)
  /\ UNCHANGED << db, catalog, txOwner, txSnap, today, hist >>

OldCompleteStep(r) ==
  \/ OldCompleteTask(r)
  \/ OldCompleteAssigned(r)
  \/ OldCompleteCount(r)
  \/ OldCompleteInsertTc(r)
  \/ OldCompleteUpdBal(r)
  \/ OldCompleteMe(r)
  \/ OldCompleteAny(r)
  \/ OldCompleteAlready(r)
  \/ OldCompleteInsertGrant(r)
  \/ OldCompleteBonus(r)
  \/ OldCompleteUpdated(r)

\* The store of that revision when the sweep is due tomorrow: user 1 earned
\* tasks 1 and 2, user 2 (referred by user 1) earned task 1, for which user 1
\* holds the referral grant, and user 1 asked for deletion, effective on the
\* next day.
ReaperDb ==
  LET d0 == AllocateAll(EmptyDb, Users)
      d1 == CompleteNow(CompleteNow(CompleteNow(d0, 1, 1, 1), 1, 1, 2), 2, 1, 1)
  IN  [ d1 EXCEPT !.grants = { << 1, 2 >> },
                  !.deleteReq[1] = 2 - GraceDays, !.deleteAt[1] = 2 ]

ReaperAmounts == { 20 }
ReaperUsers == { 1 }

InitReaper ==
  /\ db = ReaperDb
  /\ catalog = SeedCatalog
  /\ txOwner = 0
  /\ txSnap = EmptyDb
  /\ today = 1
  /\ pc = [ r \in Reqs |-> "idle" ]
  /\ loc = [ r \in Reqs |-> NoLoc ]
  /\ resp = [ r \in Reqs |-> NoResp ]
  /\ hist = [ r \in Reqs |-> NoHist ]

\* Sweeps and withdrawals whose statements interleave, while time passes.
NextReaper ==
  \/ \E r \in Reqs : PurgeStart(r)
  \/ \E r \in Reqs : PurgeSelect(r)
  \/ \E r \in Reqs : PurgeStep(r)
  \/ \E r \in Reqs, u \in ReaperUsers, a \in ReaperAmounts : OldWithdrawStart(r, u, a)
  \/ \E r \in Reqs : OldWithdrawStep(r)
  \/ AdvanceDay

SpecReaper == InitReaper /\ [][NextReaper]_vars

\* The same, with no two of them overlapping.
NextReaperSeq ==
  \/ \E r \in Reqs : (\A q \in Reqs : ~InFlight(q)) /\ PurgeStart(r)
  \/ \E r \in Reqs : PurgeSelect(r)
  \/ \E r \in Reqs : PurgeStep(r)
  \/ \E r \in Reqs, u \in ReaperUsers, a \in ReaperAmounts :
       (\A q \in Reqs : ~InFlight(q)) /\ OldWithdrawStart(r, u, a)
  \/ \E r \in Reqs : OldWithdrawStep(r)
  \/ AdvanceDay

SpecReaperSeq == InitReaper /\ [][NextReaperSeq]_vars

(***************************************************************************)
(* Specification of the referral grants (same revision)                    *)
(***************************************************************************)
\* The store of that revision before anybody earned anything: register
\* credits no bonus there, user 2 was referred by user 1 and asked for
\* deletion, effective on the next day.
GrantDb ==
  LET d0 == AllocateAll(EmptyDb, Users)
  IN  [ d0 EXCEPT !.bonus = [ u \in Users |-> 0 ],
                  !.deleteReq[2] = 2 - GraceDays, !.deleteAt[2] = 2 ]

GrantInputs == { << 2, 1 >>, << 2, 2 >>, << 1, 1 >> }

InitGrant ==
  /\ db = GrantDb
  /\ catalog = SeedCatalog
  /\ txOwner = 0
  /\ txSnap = EmptyDb
  /\ today = 1
  /\ pc = [ r \in Reqs |-> "idle" ]
  /\ loc = [ r \in Reqs |-> NoLoc ]
  /\ resp = [ r \in Reqs |-> NoResp ]
  /\ hist = [ r \in Reqs |-> NoHist ]

\* Completions, one after the other, each with its sweep, while time passes
\* and the store may reject a statement.
NextGrant ==
  \/ \E r \in Reqs, in \in GrantInputs :
       (\A q \in Reqs : ~InFlight(q)) /\ OldCompleteStart(r, in[1], in[2])
  \/ \E r \in Reqs : PurgeSelect(r)
  \/ \E r \in Reqs : PurgeStep(r)
  \/ \E r \in Reqs : OldCompleteStep(r)
  \/ \E r \in Reqs : OldCompleteFail(r)
  \/ AdvanceDay

SpecGrant == InitGrant /\ [][NextGrant]_vars

\* The timer's sweep (setInterval(purgeDeletedAccounts)) and the complete
\* requests of that revision, their statements interleaved.
SweepInputs == { << 2, 1 >>, << 1, 1 >> }

NextSweep ==
  \/ \E r \in Reqs : PurgeStart(r)
  \/ \E r \in Reqs, in \in SweepInputs : OldCompleteStart(r, in[1], in[2])
  \/ \E r \in Reqs : PurgeSelect(r)
  \/ \E r \in Reqs : PurgeStep(r)
  \/ \E r \in Reqs : OldCompleteStep(r)
  \/ \E r \in Reqs : OldCompleteFail(r)
  \/ AdvanceDay

SpecSweep == InitGrant /\ [][NextSweep]_vars

(***************************************************************************)
(* Specification of the day boundary                                       *)
(***************************************************************************)
\* The user who is followed over midnight and the task they submit.
DayUsers == { 1 }
DayInputs == { << 1, 1 >> }
DayAnswers == { << "a", "b" >> }

\* GET /api/tasks and complete, one request at a time, while the local date
\* of the reference timezone advances; a request keeps the day key it
\* computed on arrival.  Statements may be refused by the store and the
\* catalog's owner may switch a task off.
NextDay ==
  \/ \E r \in Reqs, u \in DayUsers :
       (\A q \in Reqs : ~InFlight(q)) /\ TasksStart(r, u)
  \/ \E r \in Reqs : TasksStep(r)
  \/ \E r \in Reqs, i \in DayInputs, a \in DayAnswers :
       (\A q \in Reqs : ~InFlight(q)) /\ CompleteStart(r, i[1], i[2], a)
  \/ \E r \in Reqs : CompleteStep(r)
  \/ \E r \in Reqs : StoreFail(r)
  \/ \E t \in AllocDeactivated : Deactivate(t)
  \/ AdvanceDay

SpecDay == Init /\ [][NextDay]_vars

(***************************************************************************)
(* dayKeyNairobi()                                                         *)
(***************************************************************************)
\* An instant is a number of seconds since 1970-01-01T00:00:00Z (new Date()).
\* The wall clock of timeZone "Africa/Nairobi": East Africa Time, UTC+03:00
\* the year round, as a number of seconds since 1970-01-01T00:00:00 local.
NairobiWallClock(t) == t + 3 * 3600

\* The proleptic Gregorian date << year, month, day >> of a day number
\* (days since 1970-01-01), as Intl.DateTimeFormat computes its date fields.
CivilFromDays(n) ==
  LET z == n + 719468
      era == z \div 146097
      doe == z - era * 146097
      yoe == (doe - doe \div 1460 + doe \div 36524 - doe \div 146096) \div 365
      doy == doe - (365 * yoe + yoe \div 4 - yoe \div 100)
      mp == (5 * doy + 2) \div 153
      d == doy - (153 * mp + 2) \div 5 + 1
      m == IF mp < 10 THEN mp + 3 ELSE mp - 9
      y == yoe + era * 400 + (IF m <= 2 THEN 1 ELSE 0)
  IN  << y, m, d >>

\* locale "en-CA" with year: "numeric", month: "2-digit", day: "2-digit":
\* the characters of YYYY-MM-DD.
FormatEnCA(date) ==
  LET y == date[1]
      m == date[2]
      d == date[3]
  IN  << y \div 1000, (y \div 100) % 10, (y \div 10) % 10, y % 10, "-",
         m \div 10, m % 10, "-", d \div 10, d % 10 >>

\* Mutant: the day key of the older revision, new Date().toISOString().slice(0, 10).
dayUTC(t) == FormatEnCA(CivilFromDays(t \div 86400))

\* new Intl.DateTimeFormat("en-CA", { timeZone: "Africa/Nairobi", ... }).format(t)
dayKeyNairobi(t) == FormatEnCA(CivilFromDays(NairobiWallClock(t) \div 86400))

\* Instants either side of local midnight (21:00:00Z) and of UTC midnight on
\* 2026-01-18/19, at the end of February 2026 and of the leap February 2028,
\* at the end of 2026, and one at noon.
Instants ==
  { 1768737600,
    1768769999, 1768770001, 1768780799, 1768780801, 1768856399,
    1772312399, 1772312401,
    1798750799, 1798750801,
    1835384401, 1835470801 }

\* const dayKey = dayKeyNairobi(), at the head of GET /api/tasks and of
\* complete, for a request that arrives at instant t.
DayKeyCall(r, t) ==
  /\ CanStart(r)
  /\ pc' = [ pc EXCEPT ![r] = "done" ]
  /\ loc' = [ loc EXCEPT ![r] = [ NoLoc EXCEPT !.kind = "daykey", !.at = t,
                                               !.key = dayKeyNairobi(t) ] ]
  /\ resp' = [ resp EXCEPT ![r].status = "ok" ]
  /\ UNCHANGED << db, catalog, txOwner, txSnap, today, hist >>

NextClock == \E r \in Reqs, t \in Instants : DayKeyCall(r, t)

SpecClock == Init /\ [][NextClock]_vars

(***************************************************************************)
(* Properties of the completion ledger                                     *)
(***************************************************************************)
Rejections == { "answer_required", "not_assigned", "already_completed", "task_not_found" }

\* The completion requests for assignment (u, day, t) that were answered ok.
Succeeded(u, day, t) ==
  { r \in Reqs : /\ loc[r].kind = "complete"
                 /\ loc[r].user = u /\ loc[r].day = day /\ loc[r].task = t
                 /\ resp[r].status = "ok" }

\* Sum of reward_ksh over the task_completions rows of user u in store d.
Earned(d, u) ==
  SeqSum([ k \in 1..Len(d.tc) |-> IF d.tc[k].user = u THEN d.tc[k].reward ELSE 0 ])

\* Sum of the rewards of the assignments of u that store d marks completed.
CompletedValue(d, u) ==
  SeqSum([ k \in 1..Len(d.daily) |->
             IF d.daily[k].user = u /\ d.daily[k].done
               THEN catalog[d.daily[k].task].reward ELSE 0 ])

\* C1: of the complete requests for one assignment, whatever the
\* interleaving of their statements, at most one is answered ok and the
\* balance holds at most one reward per completed assignment.
C1_ExactlyOneCredit ==
  /\ \A u \in Users, t \in TaskIds : Cardinality(Succeeded(u, 1, t)) <= 1
  /\ \A u \in Users : db.bal[u] <= CompletedValue(db, u)

\* C2: in the committed store (what survives a crash or a failed
\* transaction) the three writes of complete are all there or none is:
\* the balance is the sum of the completion records, every completion
\* record belongs to an assignment marked completed, and every assignment
\* marked completed has a completion record.
C2_AllOrNothing ==
  LET d == Committed IN
    /\ \A u \in Users : d.bal[u] = Earned(d, u)
    /\ \A k \in 1..Len(d.tc) :
         \E j \in 1..Len(d.daily) :
           /\ d.daily[j].user = d.tc[k].user /\ d.daily[j].task = d.tc[k].task
           /\ d.daily[j].day = d.tc[k].day /\ d.daily[j].done
    /\ \A j \in 1..Len(d.daily) :
         d.daily[j].done =>
           \E k \in 1..Len(d.tc) :
             /\ d.tc[k].user = d.daily[j].user /\ d.tc[k].task = d.daily[j].task
             /\ d.tc[k].day = d.daily[j].day

\* C2 witness: a request wrote inside its transaction and then lost it, to a
\* store error (ROLLBACK) or to a crash, after another completion committed.
C2_Witness ==
  \E r \in Reqs :
    /\ hist[r].wrote
    /\ resp[r].status \in { "server_error", "crashed" }
    /\ txOwner = 0
    /\ \E q \in Reqs : resp[q].status = "ok"

\* C3: a rejected complete has executed no write, and a complete that
\* starts when its assignment is already completed is rejected (or fails in
\* the store) without a write.
C3_RejectedChangesNothing ==
  \A r \in Reqs :
    /\ resp[r].status \in Rejections => ~hist[r].wrote
    /\ (hist[r].sawDone /\ pc[r] = "done") =>
         /\ resp[r].status \in { "already_completed", "answer_required",
                                 "server_error", "crashed" }
         /\ ~hist[r].wrote

\* C3 witness: a second completion, started after the first one committed
\* and credited its reward, was answered "already completed".
C3_Witness ==
  /\ \E r \in Reqs : hist[r].sawDone /\ resp[r].status = "already_completed"
  /\ db.bal[1] > 0

\* No two rows of the sequence are for tasks of the same type.
DistinctTypes(rows) ==
  \A j, k \in 1..Len(rows) :
    (j # k) => catalog[rows[j].task].type # catalog[rows[k].task].type

\* The GET /api/tasks requests that were answered.
TasksAnswered == { r \in Reqs : loc[r].kind = "tasks" /\ resp[r].status = "ok" }

\* C4: when the calls of ensureDailyTasks follow one another, the
\* assignments GET /api/tasks returns for a user and day are at most 5 and
\* no two of them are of the same type, whatever the catalog holds.
C4_AtMostFiveDistinctTypes ==
  \A r \in TasksAnswered :
    /\ Len(resp[r].tasks) <= DailyLimit
    /\ DistinctTypes(resp[r].tasks)

\* C5: when two calls of ensureDailyTasks for one user and day overlap, the
\* rows stored for that user and day are never more than 5 and never hold
\* two tasks of the same type.
C5_ConcurrentAtMostFive ==
  \A u \in Users :
    /\ Len(DailyOf(db, u, today)) <= DailyLimit
    /\ DistinctTypes(DailyOf(db, u, today))

\* C6: once a call of ensureDailyTasks for a user and day has returned, no
\* step of another call for the same user and day, started before or after,
\* adds, removes or replaces a stored assignment of that user and day.
C6_Idempotent ==
  [][ \A r \in TasksAnswered :
        DailyOf(db', loc[r].user, loc[r].day) = DailyOf(db, loc[r].user, loc[r].day)
    ]_vars

(***************************************************************************)
(* Properties of the withdrawals and of the wallets                        *)
(***************************************************************************)
\* Sum of amount_ksh over the pending withdrawals of user u in store d.
Requested(d, u) ==
  SeqSum([ k \in 1..Len(d.wd) |->
             IF d.wd[k].user = u /\ d.wd[k].status = "pending"
               THEN d.wd[k].amount ELSE 0 ])

\* C8: a withdrawal request for more than the balance is rejected, and it
\* has written neither a withdrawals row nor the balance.
C8_OverdraftRejected ==
  \A r \in Reqs :
    (hist[r].short /\ pc[r] = "done") =>
      /\ resp[r].status # "ok"
      /\ ~hist[r].wrote

\* C9: debit and request are one unit: in the committed store (what a
\* failure between the two writes leaves) the amount taken from the balance
\* of a user is exactly the sum of that user's pending requests.
C9_DebitWithRequest ==
  \A u \in Users :
    Earned(Committed, u) - Committed.bal[u] = Requested(Committed, u)

\* C10: no wallet is ever negative, also when two withdrawals or two
\* redemptions of one user overlap.
C10_NonNegative ==
  \A u \in Users : Committed.bal[u] >= 0 /\ Committed.bonus[u] >= 0

(***************************************************************************)
(* Properties of the referral bonus                                        *)
(***************************************************************************)
\* User b has a completion record in store d.
HasCompleted(d, b) == \E k \in 1..Len(d.tc) : d.tc[k].user = b

\* C7: the bonus wallet of the referrer of b rises by the fixed bonus in the
\* step that makes b's first completion durable, and in no other step: not
\* with b's later completions, not with anything else.
C7_BonusAtFirstCompletion ==
  [][ \A b \in Users :
        LET a == db.referredBy[b]
            first == ~HasCompleted(Committed, b) /\ HasCompleted(Committed', b)
        IN  (a # 0) =>
              Committed'.bonus[a] =
                Committed.bonus[a] + (IF first THEN ReferralBonus ELSE 0)
    ]_vars

(***************************************************************************)
(* Properties of the reaper                                                *)
(***************************************************************************)
\* Some row of the four dependent tables of store d names user u.
Referenced(d, u) ==
  \/ \E k \in 1..Len(d.daily) : d.daily[k].user = u
  \/ \E k \in 1..Len(d.tc) : d.tc[k].user = u
  \/ \E k \in 1..Len(d.wd) : d.wd[k].user = u
  \/ \E g \in d.grants : g[1] = u \/ g[2] = u

\* The sweeps that ran to completion.
SweepsDone == { r \in Reqs : loc[r].kind = "purge" /\ pc[r] = "done" /\ resp[r].status = "ok" }

\* C11: after a sweep that ran to completion, every user whose
\* delete_effective_at had passed when the sweep selected its users has no
\* users row and no assignment, completion, withdrawal or grant row.
C11_PurgeLeavesNoOrphans ==
  \A r \in SweepsDone : \A u \in hist[r].swept :
    u \notin db.users /\ ~Referenced(db, u)

(***************************************************************************)
(* Properties of the day key                                               *)
(***************************************************************************)
\* The day key under which the daily_tasks row with this id was created.
DayOfRow(d, id) ==
  LET rows == SelectSeq(d.daily, LAMBDA row : row.id = id)
  IN  IF rows = << >> THEN 0 ELSE rows[1].day

\* C12: GET /api/tasks returns only assignments created under the day key
\* of the request, and a complete that is answered ok has completed an
\* assignment of its own day key: no assignment of an earlier day is
\* returned or completed once the day key has advanced.
C12_DayScoped ==
  /\ \A r \in TasksAnswered :
       \A k \in 1..Len(resp[r].tasks) :
         DayOfRow(db, resp[r].tasks[k].id) = loc[r].day
  /\ \A r \in Reqs :
       (loc[r].kind = "complete" /\ resp[r].status = "ok") =>
         DailyRow(db, loc[r].user, loc[r].day, loc[r].task) # << >>
         /\ DailyRow(db, loc[r].user, loc[r].day, loc[r].task)[1].done

\* C12 witness: after midnight a complete for a task assigned the day
\* before was refused as not assigned, and GET /api/tasks then returned five
\* assignments of the new day while those of the day before are still stored.
C12_Witness ==
  /\ today = 2
  /\ \E r \in Reqs :
       loc[r].kind = "complete" /\ loc[r].day = 2 /\ resp[r].status = "not_assigned"
  /\ \E r \in TasksAnswered :
       loc[r].day = 2 /\ Len(resp[r].tasks) = DailyLimit
  /\ DailyOf(db, 1, 1) # << >>

\* The calendar day of an instant in the reference timezone, counted in whole
\* days of local time (the local date changes exactly when this number does).
LocalDay(t) == (t + 3 * 3600) \div 86400

\* The requests that computed a day key.
KeyCalls == { r \in Reqs : loc[r].kind = "daykey" }

RecordsOf(d, row) ==
  SelectSeq(d.tc, LAMBDA c : c.user = row.user /\ c.task = row.task /\ c.day = row.day)

\* C14: in the durable store every assignment marked completed has exactly
\* one completion record and every other assignment has none, whatever
\* complete requests were sent, repeated or retried.
C14_OneRecordPerAssignment ==
  \A j \in 1..Len(Committed.daily) :
    Len(RecordsOf(Committed, Committed.daily[j]))
      = (IF Committed.daily[j].done THEN 1 ELSE 0)

\* C15: whenever no request is in flight, the bonus credited to a user is
\* ReferralBonus times the number of referral_rewards rows that name the
\* user as referrer (no request of SpecGrant debits the bonus wallet, so
\* what was ever credited is what the wallet holds).
GrantsOf(d, u) == { g \in d.grants : g[1] = u }

C15_BonusMatchesGrants ==
  (\A r \in Reqs : ~InFlight(r)) =>
    \A u \in Users :
      (IF u \in db.users THEN db.bonus[u] ELSE 0)
        = ReferralBonus * Cardinality(GrantsOf(db, u))

(***************************************************************************)
(* Properties of the payout                                                *)
(***************************************************************************)
\* The statuses of the withdrawals rows of store d, by id.
StatusOf(d) == [ k \in 1..Len(d.wd) |-> d.wd[k].status ]

C18_RedeemExactBlock ==
  [][ \A r \in Reqs :
        LET u == loc[r].user IN
          /\ (pc[r] = "r_upd" /\ pc'[r] = "r_getMe") =>
               /\ db.bonus[u] >= BonusBlock
               /\ db'.bal[u] = db.bal[u] + BonusBlock
               /\ db'.bonus[u] = db.bonus[u] - BonusBlock
          /\ (pc[r] = "r_get" /\ pc'[r] # "r_get" /\ resp'[r].status # "crashed"
                /\ u \in db.users /\ db.bonus[u] < BonusBlock) =>
               /\ pc'[r] = "done"
               /\ resp'[r].status = "bonus_too_low"
               /\ db' = db ]_vars

(***************************************************************************)
(* Properties of the allocation under a changing catalog                   *)
(***************************************************************************)
\* The stored assignment set of (u, day): the tasks of its daily_tasks rows.
AssignedSet(d, u, day) == { row.task : row \in Range(DailyOf(d, u, day)) }

\* C19: every (user, day 1) of SpecFrozen has had its 5 assignments from the
\* start; no step of a GET /api/tasks request (the steps that move a
\* request) changes the stored assignment set of any of them.
C19_AllocationFrozen ==
  [][ (pc' # pc) =>
        \A u \in Users : AssignedSet(db', u, 1) = AssignedSet(db, u, 1) ]_vars

\* C20: a GET /api/tasks request that has come to draw from the whole active
\* catalog (the second loop of ensureDailyTasks) is answered, whatever
\* categories the active catalog holds.
C20_EnsureTerminates ==
  \A r \in Reqs : (pc[r] = "e_loop2") ~> (pc[r] = "done")

(***************************************************************************)
(* Properties of the registration                                          *)
(***************************************************************************)
\* C21: a step that raises a user's bonus wallet is taken only when a user
\* referred by that user has a committed completion record.
C21_NoCreditBeforeCompletion ==
  [][ \A a \in Users :
        (a \in db.users /\ a \in db'.users /\ db'.bonus[a] > db.bonus[a]) =>
          \E b \in Committed.users :
            Committed.referredBy[b] = a /\ HasCompleted(Committed, b) ]_vars

(***************************************************************************)
(* Properties of the account deletion                                      *)
(***************************************************************************)
\* C22: a step that removes a user row is a DELETE of the sweep, and the
\* user's delete_effective_at is set and not later than the current day.
C22_OnlyReaperDeletes ==
  [][ \A u \in db.users \ db'.users :
        /\ db.deleteAt[u] # 0 /\ db.deleteAt[u] <= today
        /\ \E r \in Reqs : pc[r] = "p_user" /\ pc'[r] # "p_user" ]_vars

(***************************************************************************)
(* Properties of two users at once                                         *)
(***************************************************************************)
\* What user u's complete of task t leaves when it runs alone from Init: the
\* answer ok, the reward on the balance, one completion record, the
\* assignment completed.
AsIfAlone(r, u, t) ==
  /\ resp[r].status = "ok"
  /\ db.bal[u] = SeedReward(t)
  /\ Len(SelectSeq(db.tc, LAMBDA row : row.user = u)) = 1
  /\ CompletedInStore(u, 1, t)
  /\ db.wd = << >>

\* C23: when the requests of SpecPair are over, the complete of user 2,
\* whose own statements were never rejected, has ended as if it had run
\* alone, whatever the complete of user 1 did in between.
C23_UsersIndependent ==
  \A r \in Reqs :
    (loc[r].kind = "complete" /\ loc[r].user = 2 /\ \A q \in Reqs : ~InFlight(q))
      => AsIfAlone(r, 2, 1)

(***************************************************************************)
(* Properties of the retries                                               *)
(***************************************************************************)
\* Store d holds at most one completion record per assignment and no
\* balance above the rewards of the assignments it marks completed.
AtMostOnce(d) ==
  /\ \A j \in 1..Len(d.daily) : Len(RecordsOf(d, d.daily[j])) <= 1
  /\ \A u \in Users : d.bal[u] <= CompletedValue(d, u)

\* C24: however often complete is re-invoked for an assignment after a
\* call that failed in the store, the store (as the connection sees it and
\* as a restart finds it) holds at most one completion record for the
\* assignment and at most one credit of its reward, and at most one of the
\* calls is answered ok.
C24_RetrySafe ==
  /\ AtMostOnce(db)
  /\ AtMostOnce(Committed)
  /\ \A u \in Users, t \in TaskIds : Cardinality(Succeeded(u, 1, t)) <= 1

\* C24 witness: a call wrote inside its transaction and failed, and the
\* retry was answered ok with the reward credited once.
C24_Witness ==
  \E r, q \in Reqs :
    /\ r < q
    /\ hist[r].wrote /\ resp[r].status = "server_error"
    /\ loc[q].kind = "complete" /\ resp[q].status = "ok"
    /\ txOwner = 0
    /\ db.bal[1] = SeedReward(1)


\* C25: when a completion, a withdrawal and a redemption of one user overlap
\* and each of them is answered with success, the balance they leave is the
\* initial balance plus the reward, minus the amount withdrawn, plus the
\* redeemed block: no update of the balance is lost.
AnsweredOk(kind) ==
  { r \in DOMAIN pc : loc[r].kind = kind /\ pc[r] = "done" /\ resp[r].status = "ok" }

AllSucceeded ==
  /\ \A r \in DOMAIN pc : pc[r] # "idle" => pc[r] = "done" /\ resp[r].status = "ok"
  /\ \A kind \in { "complete", "withdraw", "redeem" } : AnsweredOk(kind) # {}

C25_NoLostUpdate ==
  AllSucceeded =>
    /\ txOwner = 0
    /\ \A u \in { OverlapInput[1] } :
         db.bal[u] = WalletDb.bal[u]
                       + Cardinality(AnsweredOk("complete")) * catalog[OverlapInput[2]].reward
                       - Cardinality(AnsweredOk("withdraw")) * OverlapAmount
                       + Cardinality(AnsweredOk("redeem")) * BonusBlock

\* All three succeeded and each of them reports the final balance: each was
\* still in flight when the last of the three updates was made.
C25_Witness ==
  /\ AllSucceeded
  /\ db.bal[OverlapInput[1]] =
       WalletDb.bal[OverlapInput[1]] + SeedReward(OverlapInput[2]) - OverlapAmount + BonusBlock
  /\ \A r \in DOMAIN pc : pc[r] # "idle" => resp[r].balance = db.bal[OverlapInput[1]]


\* C26: the balance and the bonus balance of every user are whole numbers of
\* currency units in every state, whatever positive amount, whole or not,
\* the accepted withdrawals were asked for.
C26_WholeUnits ==
  /\ \A u \in db.users : db.balHalf[u] = 0
  /\ \A u \in Committed.users : Committed.balHalf[u] = 0


\* C27: in the committed store no step removes or replaces an assignment
\* row, and a row that is completed keeps its answer and its completion for
\* ever (no account is purged in SpecMutate).
C27_MutatedOnce ==
  [][ \A k \in 1..Len(Committed.daily) :
        \E j \in 1..Len(Committed'.daily) :
          /\ Committed'.daily[j].id = Committed.daily[k].id
          /\ Committed.daily[k].done => Committed'.daily[j] = Committed.daily[k] ]_vars


\* C28: for every user the day of the delete request and the day the
\* deletion takes effect are both set or both unset, and when set the
\* effect is not earlier than the request.
C28_DeletePair ==
  \A d \in { db, Committed } :
    \A u \in d.users :
      /\ (d.deleteReq[u] = 0) <=> (d.deleteAt[u] = 0)
      /\ d.deleteReq[u] # 0 => d.deleteAt[u] >= d.deleteReq[u]

\* A user asked on the first day and again on a later day; the last request
\* is the one the store holds.
C28_Witness ==
  \E r, q \in Reqs :
    /\ r < q
    /\ loc[r].kind \in { "deleterequest", "olddeleterequest" }
    /\ loc[q].kind \in { "deleterequest", "olddeleterequest" }
    /\ loc[r].user = loc[q].user
    /\ resp[r].status = "ok" /\ resp[q].status = "ok"
    /\ loc[r].at < loc[q].at
    /\ db.deleteReq[loc[q].user] > 1
    /\ db.deleteAt[loc[q].user] = loc[q].at


\* C29: the referral_rewards row and the credit of the referrer's bonus
\* wallet are written as one unit: in every state the store shows to a
\* reader, a request in flight or not, each user's bonus is ReferralBonus
\* for each row that names the user as referrer, no more and no less.
C29_GrantAtomic ==
  \A u \in Committed.users :
    Committed.bonus[u] = ReferralBonus * Cardinality(GrantsOf(Committed, u))


\* C30: complete checks, in this order, the length of the answer, the
\* assignment of the day, that it is not completed yet, and that the task is
\* still active, and answers with the first check that fails: a request
\* goes on to read the store only with an answer long enough; at the read
\* of the assignment it is answered "not assigned" or "already completed"
\* by what the row says, whatever the task's state; "task not found" is
\* answered only at the read of the task, after both passed.
Failed(status) == status \in { "server_error", "crashed" }

C30_PreconditionOrder ==
  [][ \A r \in Reqs :
        /\ (pc[r] = "idle" /\ pc'[r] # "idle" /\ loc'[r].kind = "complete") =>
              IF pc'[r] = "done"
                THEN resp'[r].status = "answer_required"
                ELSE pc'[r] = "c_getDt" /\ Len(loc'[r].ans) >= MinAnswerLen
        /\ (pc[r] = "c_getDt" /\ pc'[r] # "c_getDt" /\ ~Failed(resp'[r].status)) =>
              LET rows == DailyRow(db, loc[r].user, loc[r].day, loc[r].task) IN
                IF rows = << >> THEN resp'[r].status = "not_assigned"
                ELSE IF rows[1].done THEN resp'[r].status = "already_completed"
                ELSE pc'[r] = "c_getTask"
        /\ (pc[r] = "c_getTask" /\ pc'[r] # "c_getTask" /\ ~Failed(resp'[r].status)) =>
              IF loc[r].task \in DOMAIN catalog /\ catalog[loc[r].task].active
                THEN pc'[r] = "c_begin"
                ELSE resp'[r].status = "task_not_found"
        /\ (resp'[r].status = "task_not_found" /\ resp[r].status # "task_not_found") =>
              pc[r] = "c_getTask"
    ]_vars

\* Task NumTasks, assigned to nobody, and task 2, completed by user 1, are
\* both switched off; the request for the first was answered "not assigned"
\* and the request for the second "already completed".
C30_Witness ==
  \E r, q \in Reqs :
    /\ loc[r].kind = "complete" /\ loc[r].task = NumTasks
    /\ resp[r].status = "not_assigned"
    /\ loc[q].kind = "complete" /\ loc[q].task = 2
    /\ resp[q].status = "already_completed"
    /\ ~catalog[NumTasks].active /\ ~catalog[2].active


\* C31: in every state, a sweep or a request of the user in flight or not,
\* a user id that has no users row is named by no assignment, completion,
\* withdrawal or grant row.
C31_NoRowsWithoutUser ==
  \A u \in Users : u \notin db.users => ~Referenced(db, u)


\* C32: no two daily_tasks rows hold the same (user, day, task), and the
\* INSERT of ensureDailyTasks for a triple that a row already holds leaves
\* the store as it is, the row's completion and answer included, and the
\* request goes on.
UniqueTriples(d) ==
  \A j, k \in 1..Len(d.daily) :
    (d.daily[j].user = d.daily[k].user /\ d.daily[j].day = d.daily[k].day
       /\ d.daily[j].task = d.daily[k].task) => j = k

C32_InsertAbsorbed ==
  /\ [](UniqueTriples(db) /\ UniqueTriples(Committed))
  /\ [][ \A r \in DOMAIN pc :
           (/\ pc[r] = "e_insert"
            /\ loc'[r] # loc[r]
            /\ resp'[r].status # "server_error"
            /\ DailyRow(db, loc[r].user, loc[r].day, loc[r].picks[loc[r].i]) # << >>)
           => /\ db' = db
              /\ loc'[r].i = loc[r].i + 1
              /\ pc'[r] \in { "e_insert", "t_rows" } ]_vars

\* A listing request has run its first INSERT only; the day has the five
\* rows of the other request and no row was ever added to them (the next id
\* is the sixth), and the row of that first pick is completed with the
\* answer given.
C32_Witness ==
  \E q \in DOMAIN pc :
    /\ loc[q].kind = "tasks" /\ pc[q] = "e_insert" /\ loc[q].i = 2
    /\ Len(DailyOf(db, AbsorbUser, 1)) = DailyLimit
    /\ db.nextDt = DailyLimit + 1
    /\ \E c \in DOMAIN pc : loc[c].kind = "complete" /\ resp[c].status = "ok"
                              /\ loc[c].task = loc[q].picks[1]
    /\ LET rows == DailyRow(db, AbsorbUser, 1, loc[q].picks[1])
       IN  rows # << >> /\ rows[1].done /\ rows[1].ans = AbsorbAnswer


\* C33: in the committed store the balance of every user is the sum of the
\* rewards of the user's completion records, plus the bonus redeemed (what
\* left the bonus wallet), minus the sum of the amounts of the user's
\* withdrawal rows, whatever endpoint created them and whatever their status.
Withdrawn(d, u) ==
  SeqSum([ k \in 1..Len(d.wd) |-> IF d.wd[k].user = u THEN d.wd[k].amount ELSE 0 ])

C33_LedgerConserved ==
  \A u \in Committed.users :
    /\ Committed.balHalf[u] = 0
    /\ Committed.bal[u] = Earned(Committed, u)
                            + (WalletDb.bonus[u] - Committed.bonus[u])
                            - Withdrawn(Committed, u)


\* C34: the committed store never holds more than DailyLimit completion
\* records of one user made under one day key.
RecordsOfDay(d, u, day) ==
  { k \in 1..Len(d.tc) : d.tc[k].user = u /\ d.tc[k].day = day }

C34_AtMostFiveCredited ==
  \A u \in Users, day \in 1..MaxDay :
    Cardinality(RecordsOfDay(Committed, u, day)) <= DailyLimit


\* C35: when POST /api/withdrawals commits, the withdrawals row it has
\* inserted holds a positive whole amount, which is the amount the balance
\* lost since the BEGIN; and a request for an amount that is not positive is
\* answered as a bad request and has written nothing.
C35_RecordedIsDebited ==
  /\ [][ \A r \in Reqs :
           (pc[r] = "w_commit" /\ pc'[r] = "w_getMe") =>
             LET u == loc[r].user
                 row == db.wd[Len(db.wd)]
             IN  /\ row.user = u
                 /\ row.amount > 0
                 /\ Halves(row.amount, 0)
                      = Halves(txSnap.bal[u], txSnap.balHalf[u])
                          - Halves(db.bal[u], db.balHalf[u]) ]_vars
  /\ [](\A r \in Reqs :
          (loc[r].kind = "withdraw" /\ pc[r] = "done"
             /\ Halves(loc[r].amount, loc[r].half) <= 0) =>
            resp[r].status = "bad_request" /\ ~hist[r].wrote)


\* C36: at its COMMIT a complete has raised the balance by the reward of
\* the task and has appended one completion record that holds that reward;
\* and when no other request is in flight during the call, the balance a
\* successful complete returns is the balance of before the call plus that
\* reward, which is the balance the committed store holds.
C36_ExactCredit ==
  /\ [][ \A r \in Reqs :
           (pc[r] = "c_commit" /\ pc'[r] = "c_getMe") =>
             LET u == loc[r].user
                 reward == catalog[loc[r].task].reward
             IN  /\ db.bal[u] = txSnap.bal[u] + reward
                 /\ Len(db.tc) = Len(txSnap.tc) + 1
                 /\ db.tc[Len(db.tc)].user = u
                 /\ db.tc[Len(db.tc)].task = loc[r].task
                 /\ db.tc[Len(db.tc)].reward = reward ]_vars
  /\ [][ \A r \in Reqs :
           (pc[r] = "c_getRows" /\ resp'[r].status = "ok") =>
             /\ resp'[r].balance = hist[r].bal0 + catalog[loc[r].task].reward
             /\ resp'[r].balance = Committed.bal[loc[r].user] ]_vars

\* A complete that followed a withdrawal of 20 from the 30 of the wallet
\* and returned 20.
C36_Witness ==
  \E r, q \in Reqs :
    /\ r < q
    /\ loc[r].kind = "withdraw" /\ resp[r].status = "ok"
    /\ loc[q].kind = "complete" /\ resp[q].status = "ok"
    /\ hist[q].bal0 = WalletDb.bal[OverlapInput[1]] - loc[r].amount
    /\ resp[q].balance = hist[q].bal0 + SeedReward(OverlapInput[2])
    /\ db.bal[OverlapInput[1]] = resp[q].balance


\* C37: the remaining count that GET /api/tasks and complete compute from
\* their rows is the number of the assignments of the user for the day that
\* the store holds as not completed when the rows are read.
OpenCount(d, u, day) ==
  Len(SelectSeq(DailyOf(d, u, day), LAMBDA row : ~row.done))

C37_RemainingIsOpenCount ==
  [][ \A r \in DOMAIN pc :
        /\ (pc[r] = "t_rows" /\ pc'[r] = "t_me") =>
              Len(SelectSeq(loc'[r].rows, LAMBDA row : ~row.done))
                = OpenCount(db, loc[r].user, loc[r].day)
        /\ (pc[r] = "c_getRows" /\ resp'[r].status = "ok") =>
              resp'[r].remaining = OpenCount(db, loc[r].user, loc[r].day) ]_vars

====
